---- MODULE Spec2Model ----
(***************************************************************************)
(* Knowledge-map construction and editing pipeline of ai-roadmap-backend.  *)
(*                                                                         *)
(* Strings are sequences of one-character strings, so that partition,      *)
(* split, replace and removeprefix are computed character by character.    *)
(* An optional value (Python None | x) is the sequence <<>> or <<x>>.      *)
(* A Python dict is the sequence of its entries in insertion order, its    *)
(* keys distinct.                                                          *)
(***************************************************************************)
EXTENDS Integers, Sequences, FiniteSets, TLC

None == <<>>
Some(x) == <<x>>
IsNone(o) == o = <<>>
Truthy(o) == o # <<>> /\ o[1] # <<>>   \* `if x` for x : list | dict | None
Get(o) == o[1]

Range(s) == {s[i] : i \in 1..Len(s)}

RECURSIVE Flat(_)
\* concatenation of a sequence of sequences
Flat(ss) == IF ss = <<>> THEN <<>> ELSE Head(ss) \o Flat(Tail(ss))

(***************************************************************************)
(* str methods used by the pipeline                                        *)
(***************************************************************************)
\* s.replace(a, b) for one-character a and b
Replace(s, a, b) == [i \in 1..Len(s) |-> IF s[i] = a THEN b ELSE s[i]]

\* s.replace(a, '') for a one-character a
Delete(s, a) == SelectSeq(s, LAMBDA c : c # a)

RECURSIVE LStrip(_)
LStrip(s) == IF s # <<>> /\ Head(s) = " " THEN LStrip(Tail(s)) ELSE s

RECURSIVE RStrip(_)
RStrip(s) ==
    IF s # <<>> /\ s[Len(s)] = " " THEN RStrip(SubSeq(s, 1, Len(s) - 1)) ELSE s

\* s.strip()
Strip(s) == RStrip(LStrip(s))

\* index of the first occurrence of c in s, 0 when there is none
RECURSIVE IndexFrom(_, _, _)
IndexFrom(s, c, i) ==
    IF i > Len(s) THEN 0 ELSE IF s[i] = c THEN i ELSE IndexFrom(s, c, i + 1)
Find(s, c) == IndexFrom(s, c, 1)

\* s.partition(c): the parts before and after the first c; (s, '') without c
PartitionHead(s, c) == IF Find(s, c) = 0 THEN s ELSE SubSeq(s, 1, Find(s, c) - 1)
PartitionTail(s, c) ==
    IF Find(s, c) = 0 THEN <<>> ELSE SubSeq(s, Find(s, c) + 1, Len(s))

\* s.split(c): ''.split(c) is ['']
RECURSIVE Split(_, _)
Split(s, c) ==
    IF Find(s, c) = 0 THEN <<s>>
    ELSE <<PartitionHead(s, c)>> \o Split(PartitionTail(s, c), c)

\* c.join(parts)
RECURSIVE Join(_, _)
Join(parts, c) ==
    IF parts = <<>> THEN <<>>
    ELSE IF Len(parts) = 1 THEN parts[1]
    ELSE parts[1] \o <<c>> \o Join(Tail(parts), c)

\* s.removeprefix(c): drops one leading c, and only one
RemovePrefix(s, c) == IF s # <<>> /\ Head(s) = c THEN Tail(s) ELSE s

\* [f(x) for x in s]
Map(s, f(_)) == [i \in 1..Len(s) |-> f(s[i])]

(***************************************************************************)
(* Header-path indexer (build_map/pipeline.py, duplicated in utils.py)     *)
(***************************************************************************)
\* the deepest header the pattern ^(#{1,6})\s+(.*) matches
MaxHeaderLevel == 6

\* header.replace(' ', '').replace('(', '').replace(')', '')
format_header(header) == Delete(Delete(Delete(header, " "), "("), ")")

RECURSIVE HashCount(_)
\* number of leading '#' of a line
HashCount(line) ==
    IF line # <<>> /\ Head(line) = "#" THEN 1 + HashCount(Tail(line)) ELSE 0

\* the line matches ^(#{1,6})\s+(.*): 1..6 '#', whitespace, then the rest
IsHeaderLine(line) ==
    /\ HashCount(line) \in 1..MaxHeaderLevel
    /\ Len(line) > HashCount(line)
    /\ line[HashCount(line) + 1] = " "

\* {'level': len(group(1)), 'text': group(2).strip().replace(' ', '-')}
HeaderOf(line) ==
    [level |-> HashCount(line),
     text  |-> Replace(Strip(SubSeq(line, HashCount(line) + 1, Len(line))), " ", "-")]

\* the headers of a document, in document order; a document is its lines
ParseHeaders(lines) == Map(SelectSeq(lines, IsHeaderLine), HeaderOf)

\* while len(current_path) >= level: current_path.pop(); current_path.append(text)
PushHeader(current_path, header) ==
    SubSeq(current_path, 1,
           IF Len(current_path) >= header.level THEN header.level - 1
           ELSE Len(current_path))
      \o <<header.text>>

RECURSIVE HeaderLoop_every_heading(_, _, _)
\* a variant of the loop that emits the path of every heading, leaf or not
\* (tested against C11)
HeaderLoop_every_heading(headers, i, current_path) ==
    IF i > Len(headers) THEN <<>>
    ELSE LET path == PushHeader(current_path, headers[i])
         IN <<Join(Map(path, format_header), "/")>>
              \o HeaderLoop_every_heading(headers, i + 1, path)

RECURSIVE HeaderLoop(_, _, _)
\* the loop over enumerate(headers) from index i with the stack current_path
HeaderLoop(headers, i, current_path) ==
    IF i > Len(headers) THEN <<>>
    ELSE LET path == PushHeader(current_path, headers[i])
             is_leaf == \/ i = Len(headers)
                        \/ headers[i + 1].level <= headers[i].level
         IN (IF is_leaf THEN <<Join(Map(path, format_header), "/")>> ELSE <<>>)
              \o HeaderLoop(headers, i + 1, path)

get_markdown_header_paths(markdown_text) ==
    HeaderLoop(ParseHeaders(markdown_text), 1, <<>>)

\* a variant of the inner loop that appends the header path without the
\* document id (tested against C12)
DocTargets_without_id(entry) == get_markdown_header_paths(entry.content)

\* f'{name}#{header_path}' for every header path of one document
DocTargets(entry) ==
    Map(get_markdown_header_paths(entry.content),
        LAMBDA header_path : entry.name \o <<"#">> \o header_path)

\* list(material.keys()) followed by the name#path of every document in order
get_allowed_sources(material) ==
    Map(material, LAMBDA e : e.name) \o Flat(Map(material, DocTargets))

\* the same three functions as imported by the map editor from utils.py
utils_format_header(header) == Delete(Delete(Delete(header, " "), "("), ")")

RECURSIVE utils_HeaderLoop(_, _, _)
utils_HeaderLoop(headers, i, current_path) ==
    IF i > Len(headers) THEN <<>>
    ELSE LET path == PushHeader(current_path, headers[i])
             is_leaf == \/ i = Len(headers)
                        \/ headers[i + 1].level <= headers[i].level
         IN (IF is_leaf THEN <<Join(Map(path, utils_format_header), "/")>> ELSE <<>>)
              \o utils_HeaderLoop(headers, i + 1, path)

utils_get_markdown_header_paths(markdown_text) ==
    utils_HeaderLoop(ParseHeaders(markdown_text), 1, <<>>)

utils_DocTargets(entry) ==
    Map(utils_get_markdown_header_paths(entry.content),
        LAMBDA header_path : entry.name \o <<"#">> \o header_path)

utils_get_allowed_sources(material) ==
    Map(material, LAMBDA e : e.name) \o Flat(Map(material, utils_DocTargets))

(***************************************************************************)
(* Python dict: entries [key, value] in insertion order                    *)
(***************************************************************************)
HasKey(d, k) == \E i \in 1..Len(d) : d[i].key = k

\* d[k] = v: overwrites in place, or appends a new entry
DictSet(d, k, v) ==
    IF HasKey(d, k)
    THEN [i \in 1..Len(d) |-> IF d[i].key = k THEN [key |-> k, value |-> v] ELSE d[i]]
    ELSE Append(d, [key |-> k, value |-> v])

\* d.get(k, default)
DictGet(d, k, default) ==
    IF HasKey(d, k) THEN (CHOOSE e \in Range(d) : e.key = k).value ELSE default

Keys(d) == Map(d, LAMBDA e : e.key)

(***************************************************************************)
(* Hierarchy normalizer: preprocess_hierarchy                              *)
(* A ConceptHierarchy is a dict name -> [sources, consists_of].            *)
(***************************************************************************)
\* _fix_source_name: the '#' is appended whether or not src holds one
fix_source_name(src) ==
    PartitionHead(src, "#") \o <<"#">>
      \o Join(Map(Split(PartitionTail(src, "#"), "/"), format_header), "/")

\* a variant of _fix_hallucinated_header that keeps the heading path of a
\* known document as cited (tested against C6)
fix_hallucinated_header_as_cited(src, allowed_sources) ==
    IF PartitionHead(src, "#") \in allowed_sources THEN Some(src) ELSE None

\* _fix_hallucinated_header: falls off the end (None) for an unknown file
fix_hallucinated_header(src, allowed_sources) ==
    IF src \in allowed_sources THEN Some(src)
    ELSE IF PartitionHead(src, "#") \in allowed_sources
         THEN Some(PartitionHead(src, "#"))
         ELSE None

\* one element of new_sources: str | None
RepairCitation(s, allowed_sources) ==
    fix_hallucinated_header(fix_source_name(s), Range(allowed_sources))

\* ConceptHierarchyNode(sources=new_sources, ...) is validated: sources is
\* list[str] | None, so a None element raises a ValidationError
NodeRaises(concept, allowed_sources) ==
    /\ Truthy(concept.sources)
    /\ \E i \in 1..Len(Get(concept.sources)) :
          IsNone(RepairCitation(Get(concept.sources)[i], allowed_sources))

RECURSIVE HierarchyRaises(_, _)
\* some node constructed by the traversal fails validation
HierarchyRaises(hierarchy, allowed_sources) ==
    \E i \in 1..Len(hierarchy) :
       \/ NodeRaises(hierarchy[i].value, allowed_sources)
       \/ /\ Truthy(hierarchy[i].value.consists_of)
          /\ HierarchyRaises(Get(hierarchy[i].value.consists_of), allowed_sources)

\* new_sources of a node whose citations all survive
NewSources(concept, allowed_sources) ==
    IF Truthy(concept.sources)
    THEN Some(Map(Get(concept.sources),
                  LAMBDA s : Get(RepairCitation(s, allowed_sources))))
    ELSE None

RECURSIVE prepocess(_, _)
RECURSIVE PrepocessLoop(_, _, _, _)
\* the loop of _prepocess over hierarchy.items() from index i
PrepocessLoop(hierarchy, allowed_sources, i, new_hierarchy) ==
    IF i > Len(hierarchy) THEN new_hierarchy
    ELSE LET concept == hierarchy[i].value
             node == [sources |-> NewSources(concept, allowed_sources),
                      consists_of |->
                         IF Truthy(concept.consists_of)
                         THEN Some(prepocess(Get(concept.consists_of), allowed_sources))
                         ELSE None]
         IN PrepocessLoop(hierarchy, allowed_sources, i + 1,
               DictSet(new_hierarchy, RemovePrefix(hierarchy[i].key, "_"), node))

prepocess(hierarchy, allowed_sources) ==
    PrepocessLoop(hierarchy, allowed_sources, 1, <<>>)

\* [ok, value]: ok is FALSE when the call raises
preprocess_hierarchy(hierarchy, allowed_sources) ==
    IF HierarchyRaises(hierarchy, allowed_sources)
    THEN [ok |-> FALSE, value |-> <<>>]
    ELSE [ok |-> TRUE, value |-> prepocess(hierarchy, allowed_sources)]

(***************************************************************************)
(* Relation linker: flatten_hierarchy, get_parents_map, get_children_map,  *)
(* preprocess_related                                                      *)
(***************************************************************************)
\* a variant of flatten_hierarchy that does not descend (tested against C10)
flatten_hierarchy_top_level(hierarchy) ==
    {hierarchy[i].key : i \in 1..Len(hierarchy)}

RECURSIVE flatten_hierarchy(_)
RECURSIVE FlattenLoop(_, _, _)
\* the loop over hierarchy.items() from index i with the set concepts
FlattenLoop(hierarchy, i, concepts) ==
    IF i > Len(hierarchy) THEN concepts
    ELSE LET node == hierarchy[i].value
             added == concepts \cup {hierarchy[i].key}
         IN FlattenLoop(hierarchy, i + 1,
               IF Truthy(node.consists_of)
               THEN added \cup flatten_hierarchy(Get(node.consists_of))
               ELSE added)

flatten_hierarchy(hierarchy) == FlattenLoop(hierarchy, 1, {})

RECURSIVE ParentsTraverse(_, _, _)
RECURSIVE ParentsLoop(_, _, _, _)
ParentsLoop(sub_hierarchy, current_path, i, parents_map) ==
    IF i > Len(sub_hierarchy) THEN parents_map
    ELSE LET concept_name == sub_hierarchy[i].key
             node_data == sub_hierarchy[i].value
             assigned == DictSet(parents_map, concept_name, current_path)
         IN ParentsLoop(sub_hierarchy, current_path, i + 1,
               IF Truthy(node_data.consists_of)
               THEN ParentsTraverse(Get(node_data.consists_of),
                                    Append(current_path, concept_name), assigned)
               ELSE assigned)

\* _traverse of get_parents_map, the accumulator parents_map made explicit
ParentsTraverse(sub_hierarchy, current_path, parents_map) ==
    ParentsLoop(sub_hierarchy, current_path, 1, parents_map)

get_parents_map(hierarchy) == ParentsTraverse(hierarchy, <<>>, <<>>)

RECURSIVE ChildrenTraverse(_, _)
RECURSIVE ChildrenLoop(_, _, _, _)
ChildrenLoop(sub_hierarchy, i, all_concepts_in_subtree, children_map) ==
    IF i > Len(sub_hierarchy)
    THEN [all |-> all_concepts_in_subtree, map |-> children_map]
    ELSE LET concept_name == sub_hierarchy[i].key
             node_data == sub_hierarchy[i].value
             all == Append(all_concepts_in_subtree, concept_name)
         IN IF Truthy(node_data.consists_of)
            THEN LET r == ChildrenTraverse(Get(node_data.consists_of), children_map)
                 IN ChildrenLoop(sub_hierarchy, i + 1, all \o r.all,
                                 DictSet(r.map, concept_name, r.all))
            ELSE ChildrenLoop(sub_hierarchy, i + 1, all,
                              DictSet(children_map, concept_name, <<>>))

\* _traverse of get_children_map: [all, map], the names of the subtree and
\* the accumulator children_map
ChildrenTraverse(sub_hierarchy, children_map) ==
    ChildrenLoop(sub_hierarchy, 1, <<>>, children_map)

get_children_map(hierarchy) == ChildrenTraverse(hierarchy, <<>>).map

\* the filter of preprocess_related for one entry; there is no test
\* concept != key
FilterRelated(key, value, concepts, ancestors, descendats) ==
    SelectSeq(value, LAMBDA concept :
        /\ concept \in concepts
        /\ concept \notin Range(DictGet(ancestors, key, <<>>))
        /\ concept \notin Range(DictGet(descendats, key, <<>>)))

\* list(filter(...)) or None
OrNone(list) == IF list = <<>> THEN None ELSE Some(list)

\* a relation map is a dict name -> list | None; filter(f, None) raises a
\* TypeError.  [ok, value]
preprocess_related(related, hierarchy) ==
    IF \E i \in 1..Len(related) : IsNone(related[i].value)
    THEN [ok |-> FALSE, value |-> <<>>]
    ELSE [ok |-> TRUE,
          value |-> [i \in 1..Len(related) |->
                       [key |-> related[i].key,
                        value |-> OrNone(FilterRelated(related[i].key,
                                            Get(related[i].value),
                                            flatten_hierarchy(hierarchy),
                                            get_parents_map(hierarchy),
                                            get_children_map(hierarchy)))]]]

(***************************************************************************)
(* Graph assembler: BuildMapPipeline.build._convert_hierarchy_to_concepts  *)
(***************************************************************************)
RECURSIVE convert_first_source(_, _)
\* a variant that takes the first citation of a node only (tested against
\* C19)
convert_first_source(nodes, related_map) ==
    [i \in 1..Len(nodes) |->
        [title       |-> nodes[i].key,
         description |-> None,
         related     |-> DictGet(related_map, nodes[i].key, None),
         source      |-> IF Truthy(nodes[i].value.sources)
                         THEN Some(<<Get(nodes[i].value.sources)[1]>>)
                         ELSE nodes[i].value.sources,
         consist_of  |->
            IF Truthy(nodes[i].value.consists_of)
            THEN Some(convert_first_source(
                         Get(nodes[i].value.consists_of), related_map))
            ELSE None]]

RECURSIVE convert_hierarchy_to_concepts(_, _)
convert_hierarchy_to_concepts(nodes, related_map) ==
    [i \in 1..Len(nodes) |->
        [title       |-> nodes[i].key,
         description |-> None,
         related     |-> DictGet(related_map, nodes[i].key, None),
         source      |-> nodes[i].value.sources,
         consist_of  |->
            IF Truthy(nodes[i].value.consists_of)
            THEN Some(convert_hierarchy_to_concepts(
                         Get(nodes[i].value.consists_of), related_map))
            ELSE None]]

(***************************************************************************)
(* Map editor: flatten_map, get_parents_map_from_list,                     *)
(* get_children_map_from_list, preprocess_edited_map                       *)
(* A Concept is [title, description, related, source, consist_of].         *)
(***************************************************************************)
RECURSIVE flatten_map(_)
RECURSIVE FlattenMapLoop(_, _, _)
FlattenMapLoop(concepts, i, titles) ==
    IF i > Len(concepts) THEN titles
    ELSE LET added == titles \cup {concepts[i].title}
         IN FlattenMapLoop(concepts, i + 1,
               IF Truthy(concepts[i].consist_of)
               THEN added \cup flatten_map(concepts[i].consist_of)
               ELSE added)

\* concepts : list[Concept] | None
flatten_map(concepts) ==
    IF ~Truthy(concepts) THEN {} ELSE FlattenMapLoop(Get(concepts), 1, {})

RECURSIVE ListParentsTraverse(_, _, _)
RECURSIVE ListParentsLoop(_, _, _, _)
ListParentsLoop(sub_concepts, current_path, i, parents_map) ==
    IF i > Len(sub_concepts) THEN parents_map
    ELSE LET concept == sub_concepts[i]
             assigned == DictSet(parents_map, concept.title, current_path)
         IN ListParentsLoop(sub_concepts, current_path, i + 1,
               IF Truthy(concept.consist_of)
               THEN ListParentsTraverse(concept.consist_of,
                                        Append(current_path, concept.title), assigned)
               ELSE assigned)

ListParentsTraverse(sub_concepts, current_path, parents_map) ==
    IF ~Truthy(sub_concepts) THEN parents_map
    ELSE ListParentsLoop(Get(sub_concepts), current_path, 1, parents_map)

get_parents_map_from_list(concepts) == ListParentsTraverse(concepts, <<>>, <<>>)

RECURSIVE ListChildrenTraverse(_, _)
RECURSIVE ListChildrenLoop(_, _, _, _)
ListChildrenLoop(sub_concepts, i, all_titles_in_subtree, children_map) ==
    IF i > Len(sub_concepts)
    THEN [all |-> all_titles_in_subtree, map |-> children_map]
    ELSE LET concept == sub_concepts[i]
             all == Append(all_titles_in_subtree, concept.title)
         IN IF Truthy(concept.consist_of)
            THEN LET r == ListChildrenTraverse(concept.consist_of, children_map)
                 IN ListChildrenLoop(sub_concepts, i + 1, all \o r.all,
                                     DictSet(r.map, concept.title, r.all))
            ELSE ListChildrenLoop(sub_concepts, i + 1, all,
                                  DictSet(children_map, concept.title, <<>>))

ListChildrenTraverse(sub_concepts, children_map) ==
    IF ~Truthy(sub_concepts) THEN [all |-> <<>>, map |-> children_map]
    ELSE ListChildrenLoop(Get(sub_concepts), 1, <<>>, children_map)

get_children_map_from_list(concepts) == ListChildrenTraverse(concepts, <<>>).map

\* _fix_source_name of the editor: empty segments are skipped and no '#' is
\* left without a heading path
edit_fix_source_name(src) ==
    LET file == PartitionHead(src, "#")
        headers == PartitionTail(src, "#")
        formatted_headers ==
            Join(Map(SelectSeq(Split(headers, "/"), LAMBDA h : h # <<>>),
                     utils_format_header), "/")
    IN IF headers = <<>> THEN file
       ELSE IF formatted_headers # <<>> THEN file \o <<"#">> \o formatted_headers
       ELSE file

\* a variant of _fix_hallucinated_source that truncates to the document id
\* without looking the document up (tested against C1)
fix_hallucinated_source_any_document(src, allowed_sources_set) ==
    IF src \in allowed_sources_set THEN Some(src)
    ELSE Some(PartitionHead(src, "#"))

fix_hallucinated_source(src, allowed_sources_set) ==
    IF src \in allowed_sources_set THEN Some(src)
    ELSE IF PartitionHead(src, "#") \in allowed_sources_set
         THEN Some(PartitionHead(src, "#"))
         ELSE None

\* one element of processed_src: str | None
EditRepairCitation(s, allowed_sources) ==
    fix_hallucinated_source(edit_fix_source_name(s), Range(allowed_sources))

\* new_sources of one concept: [s for s in processed_src if s] or None
EditNewSources(concept, allowed_sources) ==
    IF Truthy(concept.source)
    THEN OrNone(Map(SelectSeq(Map(Get(concept.source),
                                  LAMBDA s : EditRepairCitation(s, allowed_sources)),
                              LAMBDA o : ~IsNone(o) /\ Get(o) # <<>>),
                    Get))
    ELSE None

\* new_related of one concept
EditNewRelated(concept, all_titles, parents_map, children_map) ==
    IF Truthy(concept.related)
    THEN OrNone(SelectSeq(Get(concept.related), LAMBDA rel_title :
            /\ rel_title \in all_titles
            /\ rel_title # concept.title
            /\ rel_title \notin Range(DictGet(parents_map, concept.title, <<>>))
            /\ rel_title \notin Range(DictGet(children_map, concept.title, <<>>))))
    ELSE None

RECURSIVE traverse_and_process_undescribed(_, _, _, _, _)
\* a variant that builds every concept anew, without its description (tested
\* against C25)
traverse_and_process_undescribed(concepts, allowed_sources, all_titles, parents_map, children_map) ==
    IF ~Truthy(concepts) THEN None
    ELSE Some([i \in 1..Len(Get(concepts)) |->
            [title       |-> Get(concepts)[i].title,
             description |-> None,
             source      |-> EditNewSources(Get(concepts)[i], allowed_sources),
             related     |-> EditNewRelated(Get(concepts)[i], all_titles,
                                            parents_map, children_map),
             consist_of  |-> traverse_and_process_undescribed(
                                Get(concepts)[i].consist_of, allowed_sources,
                                all_titles, parents_map, children_map)]])

RECURSIVE traverse_and_process(_, _, _, _, _)
\* concepts : list[Concept] | None; the result is a list or None
traverse_and_process(concepts, allowed_sources, all_titles, parents_map, children_map) ==
    IF ~Truthy(concepts) THEN None
    ELSE Some([i \in 1..Len(Get(concepts)) |->
            [title       |-> Get(concepts)[i].title,
             description |-> Get(concepts)[i].description,
             source      |-> EditNewSources(Get(concepts)[i], allowed_sources),
             related     |-> EditNewRelated(Get(concepts)[i], all_titles,
                                            parents_map, children_map),
             consist_of  |-> traverse_and_process(Get(concepts)[i].consist_of,
                                allowed_sources, all_titles, parents_map, children_map)]])

\* KnowledgeMap(concepts=final_processed_concepts or []); a knowledge map is
\* its list of root concepts
preprocess_edited_map(edited_map, allowed_sources) ==
    LET final_processed_concepts ==
            traverse_and_process(Some(edited_map), allowed_sources,
                                 flatten_map(Some(edited_map)),
                                 get_parents_map_from_list(Some(edited_map)),
                                 get_children_map_from_list(Some(edited_map)))
    IN IF Truthy(final_processed_concepts) THEN Get(final_processed_concepts) ELSE <<>>

(***************************************************************************)
(* The normalization passes over Python objects.  A heap is the sequence   *)
(* of the objects allocated so far and a reference is an index into it (0  *)
(* is None): a dict is its entries [key, value], the value a reference; a  *)
(* list of strings is the list; a list of objects is the list of their     *)
(* references; a model object is the record of its fields.  A pass is      *)
(* translated statement by statement: what it allocates is appended, what  *)
(* it assigns is written to the object the variable is bound to.           *)
(***************************************************************************)
\* [heap, ref] after allocating object
Alloc(heap, object) == [heap |-> Append(heap, object), ref |-> Len(heap) + 1]

\* a list | None value: no object for None
AllocOptional(heap, o) ==
    IF IsNone(o) THEN [heap |-> heap, ref |-> 0] ELSE Alloc(heap, Get(o))

\* the list | None value behind a reference
Optional(heap, ref) == IF ref = 0 THEN None ELSE Some(heap[ref])

\* obj[key] = value_ref on the dict object behind ref
SetItem(heap, ref, key, value_ref) ==
    [heap EXCEPT ![ref] = DictSet(@, key, value_ref)]

\* a variant of dict.copy() that returns the dict itself (tested against
\* C26)
dict_alias(heap, ref) == [heap |-> heap, ref |-> ref]

\* d.copy(): a new dict with the same entries, which refer to the same
\* value objects
dict_copy(heap, ref) == Alloc(heap, heap[ref])

\* the objects of a parsed RelatedConcepts: the model object, the dict
\* related.related and one list per entry
RelatedConceptsObjects(related) ==
    << [related |-> 2],
       [i \in 1..Len(related) |-> [key |-> related[i].key, value |-> 2 + i]] >>
      \o [i \in 1..Len(related) |-> Get(related[i].value)]

RECURSIVE RelatedLoop(_, _, _, _, _)
\* for key, value in list(new_related.items()): new_related[key] = ... or None
RelatedLoop(heap, new_related, items, i, hierarchy) ==
    IF i > Len(items) THEN heap
    ELSE LET key == items[i].key
             value == heap[items[i].value]
             filtered == AllocOptional(heap,
                            OrNone(FilterRelated(key, value,
                                                 flatten_hierarchy(hierarchy),
                                                 get_parents_map(hierarchy),
                                                 get_children_map(hierarchy))))
         IN RelatedLoop(SetItem(filtered.heap, new_related, key, filtered.ref),
                        new_related, items, i + 1, hierarchy)

\* preprocess_related on the heap: [heap, ref] of the RelatedConcepts it
\* returns
preprocess_related_on(heap, related, hierarchy) ==
    LET new_related == dict_copy(heap, heap[related].related)
        looped == RelatedLoop(new_related.heap, new_related.ref,
                              new_related.heap[new_related.ref], 1, hierarchy)
    IN Alloc(looped, [related |-> new_related.ref])

\* the relation map behind a RelatedConcepts object
RelatedConceptsValue(heap, ref) ==
    LET d == heap[heap[ref].related]
    IN [i \in 1..Len(d) |-> [key |-> d[i].key, value |-> Optional(heap, d[i].value)]]

\* `if x` for a list | dict | None behind a reference
TruthyRef(heap, ref) == ref # 0 /\ heap[ref] # <<>>

RECURSIVE ConceptHierarchyObjects(_, _)
RECURSIVE NodeObjects(_, _, _, _)
\* the objects of the nodes of one level from index i: for each node its
\* sources list, the objects of its consists_of, then the node; entries
\* are the dict entries so far
NodeObjects(heap, hierarchy, i, entries) ==
    IF i > Len(hierarchy) THEN [heap |-> heap, entries |-> entries]
    ELSE LET sources == AllocOptional(heap, hierarchy[i].value.sources)
             consists_of ==
                IF IsNone(hierarchy[i].value.consists_of)
                THEN [heap |-> sources.heap, ref |-> 0]
                ELSE ConceptHierarchyObjects(sources.heap,
                                             Get(hierarchy[i].value.consists_of))
             node == Alloc(consists_of.heap,
                           [sources |-> sources.ref, consists_of |-> consists_of.ref])
         IN NodeObjects(node.heap, hierarchy, i + 1,
                        Append(entries, [key |-> hierarchy[i].key, value |-> node.ref]))

\* [heap, ref] of the objects of a parsed ConceptHierarchy: a dict per level
ConceptHierarchyObjects(heap, hierarchy) ==
    LET nodes == NodeObjects(heap, hierarchy, 1, <<>>)
    IN Alloc(nodes.heap, nodes.entries)

RECURSIVE prepocess_on(_, _, _)
RECURSIVE PrepocessLoopOn(_, _, _, _, _)
\* the loop of _prepocess over hierarchy.items() from index i; new_hierarchy
\* is the dict the function created
PrepocessLoopOn(heap, items, i, new_hierarchy, allowed_sources) ==
    IF i > Len(items) THEN heap
    ELSE LET concept == heap[items[i].value]
             new_sources ==
                IF TruthyRef(heap, concept.sources)
                THEN Alloc(heap, Map(heap[concept.sources],
                              LAMBDA s : Get(RepairCitation(s, heap[allowed_sources]))))
                ELSE [heap |-> heap, ref |-> 0]
             consists_of ==
                IF TruthyRef(new_sources.heap, concept.consists_of)
                THEN prepocess_on(new_sources.heap, concept.consists_of, allowed_sources)
                ELSE [heap |-> new_sources.heap, ref |-> 0]
             node == Alloc(consists_of.heap,
                           [sources |-> new_sources.ref, consists_of |-> consists_of.ref])
         IN PrepocessLoopOn(SetItem(node.heap, new_hierarchy,
                                    RemovePrefix(items[i].key, "_"), node.ref),
                            items, i + 1, new_hierarchy, allowed_sources)

\* _prepocess on the heap: new_hierarchy = {} is a new dict, local to the
\* call
prepocess_on(heap, hierarchy, allowed_sources) ==
    LET new_hierarchy == Alloc(heap, <<>>)
    IN [heap |-> PrepocessLoopOn(new_hierarchy.heap, heap[hierarchy], 1,
                                 new_hierarchy.ref, allowed_sources),
        ref  |-> new_hierarchy.ref]

\* preprocess_hierarchy on the heap, for a hierarchy on which it does not
\* raise: hierarchy.copy(), whose result is dropped, then _prepocess
preprocess_hierarchy_on(heap, hierarchy, allowed_sources) ==
    prepocess_on(dict_copy(heap, hierarchy).heap, hierarchy, allowed_sources)

RECURSIVE ConceptHierarchyValue(_, _)
\* the hierarchy behind a dict object
ConceptHierarchyValue(heap, ref) ==
    [i \in 1..Len(heap[ref]) |->
        LET node == heap[heap[ref][i].value]
        IN [key   |-> heap[ref][i].key,
            value |-> [sources     |-> Optional(heap, node.sources),
                       consists_of |-> IF node.consists_of = 0 THEN None
                                       ELSE Some(ConceptHierarchyValue(
                                                    heap, node.consists_of))]]]

RECURSIVE ConceptListObjects(_, _, _, _)
\* the objects of the concepts of a list from index i: for each concept its
\* related list, its source list, the objects of its consist_of, then the
\* concept; refs are the references of the concepts so far
ConceptListObjects(heap, concepts, i, refs) ==
    IF i > Len(concepts) THEN Alloc(heap, refs)
    ELSE LET c == concepts[i]
             related_list == AllocOptional(heap, c.related)
             source == AllocOptional(related_list.heap, c.source)
             consist_of ==
                IF IsNone(c.consist_of) THEN [heap |-> source.heap, ref |-> 0]
                ELSE ConceptListObjects(source.heap, Get(c.consist_of), 1, <<>>)
             concept == Alloc(consist_of.heap,
                              [title       |-> c.title,
                               description |-> c.description,
                               related     |-> related_list.ref,
                               source      |-> source.ref,
                               consist_of  |-> consist_of.ref])
         IN ConceptListObjects(concept.heap, concepts, i + 1, Append(refs, concept.ref))

\* [heap, ref] of the objects of a parsed KnowledgeMap
KnowledgeMapObjects(heap, knowledge_map) ==
    LET concepts == ConceptListObjects(heap, knowledge_map, 1, <<>>)
    IN Alloc(concepts.heap, [concepts |-> concepts.ref])

RECURSIVE ConceptListValue(_, _)
\* the concept list behind a list object
ConceptListValue(heap, ref) ==
    [i \in 1..Len(heap[ref]) |->
        LET c == heap[heap[ref][i]]
        IN [title       |-> c.title,
            description |-> c.description,
            related     |-> Optional(heap, c.related),
            source      |-> Optional(heap, c.source),
            consist_of  |-> IF c.consist_of = 0 THEN None
                            ELSE Some(ConceptListValue(heap, c.consist_of))]]

\* the knowledge map (its list of root concepts) behind a KnowledgeMap
KnowledgeMapValue(heap, ref) == ConceptListValue(heap, heap[ref].concepts)

RECURSIVE traverse_and_process_on(_, _, _, _, _, _)
RECURSIVE TraverseLoopOn(_, _, _, _, _, _, _, _)
\* the loop of _traverse_and_process from index i; processed_concepts is
\* the list the function created
TraverseLoopOn(heap, items, i, processed_concepts, allowed_sources, all_titles, parents_map, children_map) ==
    IF i > Len(items) THEN heap
    ELSE LET concept == heap[items[i]]
             read == [title   |-> concept.title,
                      source  |-> Optional(heap, concept.source),
                      related |-> Optional(heap, concept.related)]
             new_sources ==
                AllocOptional(heap, EditNewSources(read, heap[allowed_sources]))
             new_related ==
                AllocOptional(new_sources.heap,
                              EditNewRelated(read, all_titles, parents_map, children_map))
             processed_children ==
                traverse_and_process_on(new_related.heap, concept.consist_of,
                                        allowed_sources, all_titles, parents_map,
                                        children_map)
             \* concept.model_copy(update={...}): a new Concept
             processed_concept ==
                Alloc(processed_children.heap,
                      [concept EXCEPT !.source = new_sources.ref,
                                      !.related = new_related.ref,
                                      !.consist_of = processed_children.ref])
         IN TraverseLoopOn(
               \* processed_concepts.append(processed_concept)
               [processed_concept.heap EXCEPT
                   ![processed_concepts] = Append(@, processed_concept.ref)],
               items, i + 1, processed_concepts, allowed_sources, all_titles,
               parents_map, children_map)

\* _traverse_and_process on the heap: [heap, ref] of the list it returns, 0
\* for None
traverse_and_process_on(heap, concepts, allowed_sources, all_titles, parents_map, children_map) ==
    IF ~TruthyRef(heap, concepts) THEN [heap |-> heap, ref |-> 0]
    ELSE LET processed_concepts == Alloc(heap, <<>>)
         IN [heap |-> TraverseLoopOn(processed_concepts.heap, heap[concepts], 1,
                                     processed_concepts.ref, allowed_sources,
                                     all_titles, parents_map, children_map),
             ref  |-> processed_concepts.ref]

\* preprocess_edited_map on the heap: [heap, ref] of the KnowledgeMap it
\* returns
preprocess_edited_map_on(heap, edited_map, allowed_sources) ==
    LET concepts == Some(KnowledgeMapValue(heap, edited_map))
        final_processed_concepts ==
            traverse_and_process_on(heap, heap[edited_map].concepts, allowed_sources,
                                    flatten_map(concepts),
                                    get_parents_map_from_list(concepts),
                                    get_children_map_from_list(concepts))
        \* final_processed_concepts or []
        list == IF final_processed_concepts.ref # 0 THEN final_processed_concepts
                ELSE Alloc(final_processed_concepts.heap, <<>>)
    IN Alloc(list.heap, [concepts |-> list.ref])

\* edit_map_prompt: the messages of the edit request, which embed the
\* serialized current map and the allowed-target list
edit_map_prompt(heap, knowledge_map, allowed_sources) ==
    Alloc(heap, [knowledge_map   |-> KnowledgeMapValue(heap, knowledge_map),
                 allowed_sources |-> heap[allowed_sources]])

\* edit on the heap, from the prompt to the return: parsed is message.parsed
edit_on(heap, knowledge_map, allowed_sources, parsed) ==
    preprocess_edited_map_on(edit_map_prompt(heap, knowledge_map, allowed_sources).heap,
                             parsed, allowed_sources)

(***************************************************************************)
(* logic.py: the heuristic SQL roadmap built from the module-level list    *)
(* BASIC_MILESTONES.  A Milestone is [id, resources, estimated_hours,      *)
(* tags], its resources the titles of its Resource objects; title, summary *)
(* and topics are never assigned and are left out.                         *)
(***************************************************************************)
Milestone(id, resources, estimated_hours, tags) ==
    [id |-> id, resources |-> resources, estimated_hours |-> estimated_hours,
     tags |-> tags]

\* BASIC_MILESTONES as the module defines it
InitialMilestones ==
    << Milestone("sql-basics", <<"Mode: SQL Tutorial">>, 6, <<"core">>),
       Milestone("joins-agg", <<"PostgreSQL docs: SELECT">>, 6, <<"core">>),
       Milestone("subqueries-ctes", <<"CTE Explained">>, 5, <<"core">>),
       Milestone("indexes-perf", <<"Use The Index, Luke!">>, 6, <<"perf">>),
       Milestone("transactions", <<"PostgreSQL Concurrency Control">>, 4, <<"db-theory">>),
       Milestone("window-funcs", <<"PostgreSQL: Window Functions">>, 5, <<"analytics">>),
       Milestone("data-modeling", <<"Intro to Data Modeling">>, 4, <<"modeling">>),
       Milestone("practice", <<"SQLBolt Exercises">>, 6, <<"practice">>) >>

UpperCase == <<"A", "B", "C", "D", "E", "F", "G", "H", "I", "J", "K", "L", "M",
               "N", "O", "P", "Q", "R", "S", "T", "U", "V", "W", "X", "Y", "Z">>
LowerCase == <<"a", "b", "c", "d", "e", "f", "g", "h", "i", "j", "k", "l", "m",
               "n", "o", "p", "q", "r", "s", "t", "u", "v", "w", "x", "y", "z">>

\* s.lower()
Lower(s) ==
    [i \in 1..Len(s) |->
        IF \E k \in 1..Len(UpperCase) : UpperCase[k] = s[i]
        THEN LowerCase[CHOOSE k \in 1..Len(UpperCase) : UpperCase[k] = s[i]]
        ELSE s[i]]

\* sub in s
Contains(s, sub) ==
    \E i \in 0..(Len(s) - Len(sub)) : SubSeq(s, i + 1, i + Len(sub)) = sub

\* any(k in text for k in keywords)
AnyIn(keywords, text) == \E k \in keywords : Contains(text, k)

\* _infer_level_from_text; the keywords in Cyrillic letters are left out
\* (the texts drawn below are ASCII), as is the cut at 5000 characters
infer_level_from_text(blobs) ==
    LET text == Lower(Join(blobs, " "))
    IN IF AnyIn({ <<"w", "i", "n", "d", "o", "w", " ", "f", "u", "n", "c", "t", "i", "o", "n">>,
                  <<"e", "x", "p", "l", "a", "i", "n", " ", "a", "n", "a", "l", "y", "z", "e">> }, text)
       THEN "intermediate"
       ELSE IF AnyIn({ <<"c", "t", "e">>,
                       <<"r", "e", "c", "u", "r", "s", "i", "v", "e">> }, text)
       THEN "intermediate"
       ELSE IF AnyIn({ <<"p", "a", "r", "t", "i", "t", "i", "o", "n">>,
                       <<"s", "h", "a", "r", "d">>,
                       <<"m", "v", "c", "c">>,
                       <<"d", "e", "a", "d", "l", "o", "c", "k">> }, text)
       THEN "advanced"
       ELSE "beginner"

\* for m in milestones: if m.id in ids: m.resources.append(resource)
AppendResource(milestones, ids, resource) ==
    [i \in 1..Len(milestones) |->
        IF milestones[i].id \in ids
        THEN [milestones[i] EXCEPT !.resources = Append(@, resource)]
        ELSE milestones[i]]

\* for m in milestones: if m.id == 'window-funcs': m.estimated_hours =
\* max(m.estimated_hours, 6); 'priority' is appended to m.tags once
Prioritize(milestones) ==
    [i \in 1..Len(milestones) |->
        IF milestones[i].id = "window-funcs"
        THEN [milestones[i] EXCEPT
                 !.estimated_hours = IF @ > 6 THEN @ ELSE 6,
                 !.tags = IF "priority" \in Range(@) THEN @ ELSE Append(@, "priority")]
        ELSE milestones[i]]

RECURSIVE TotalHours(_)
\* sum(m.estimated_hours for m in milestones)
TotalHours(milestones) ==
    IF milestones = <<>> THEN 0
    ELSE Head(milestones).estimated_hours + TotalHours(Tail(milestones))

\* generate_sql_roadmap.  milestones = list(BASIC_MILESTONES) is a new list
\* of the same Milestone objects, so what the loops assign to m is assigned
\* to the objects of the module-level list: [objects, roadmap], the
\* Milestone objects after the call and the Roadmap returned
generate_sql_roadmap(objects, text_blobs) ==
    LET joined_text == Lower(Join(text_blobs, " "))
        first == IF \/ Contains(joined_text, <<"p", "o", "s", "t", "g", "r", "e", "s">>)
                    \/ Contains(joined_text, <<"p", "o", "s", "t", "g", "r", "e", "s", "q", "l">>)
                 THEN AppendResource(objects, {"indexes-perf", "window-funcs"},
                                     "PG: EXPLAIN")
                 ELSE objects
        second == IF Contains(joined_text, <<"m", "y", "s", "q", "l">>)
                  THEN AppendResource(first, {"indexes-perf"}, "MySQL Optimizer")
                  ELSE first
        third == IF \/ Contains(joined_text, <<"a", "n", "a", "l", "y", "t", "i", "c", "s">>)
                    \/ Contains(joined_text, <<"b", "i">>)
                 THEN Prioritize(second)
                 ELSE second
    IN [objects |-> third,
        roadmap |-> [title |-> "SQL Roadmap",
                     level |-> infer_level_from_text(text_blobs),
                     total_estimated_hours |-> TotalHours(third),
                     milestones |-> third]]

(***************************************************************************)
(* Inputs: the documents of a request and the structured responses the     *)
(* completion service may return.  The service is not trusted: it may cite *)
(* targets that do not exist, repeat a name, name unknown concepts.        *)
(***************************************************************************)
\* concepts in one response tree
MaxNodes == 3
\* names in one related list
MaxRelated == 2
\* citations in one citation list
MaxSources == 2
\* leading underscores of a generated concept name
MaxUnderscores == 2

Doc(name, content) == [name |-> name, content |-> content]

\* material: dict document id -> text; a text is the sequence of its lines
Materials ==
    { << Doc(<<"d">>, << <<"#", " ", "I", " ", "(", "o", ")">>, <<"t">> >>) >>,
      << Doc(<<"d">>, << <<"#", " ", "I", " ", "(", "o", ")">>,
                         <<"#", "#", " ", "S">>,
                         <<"t", " ", "#">>,
                         <<"#", " ", "T">> >>),
         Doc(<<"e">>, << <<"t">> >>),
         Doc(<<"f">>, << <<"#", " ", "(", ")">>,
                         <<"#", "#", " ", "B">> >>) >> }

\* citation strings a response may carry
Citations ==
    { <<"d">>,                                  \* a document id
      <<"d", "#", "I", "-", "o">>,              \* an indexed heading path
      <<"d", "#", "(", "I", "-", "o", ")">>,    \* the path, in parentheses
      <<"d", "#", "I", " ", "(", "o", ")">>,    \* the same heading, as written
      <<"d", "#", "I", "-", "o", "/", "S">>,    \* a nested heading path
      <<"d", "#", "Z">>,                        \* an invented heading
      <<"f", "#", "(", ")", "/", "B">>,         \* a heading of parentheses only
      <<"u", "#", "Z">> }                       \* an unknown document

RECURSIVE SeqsUpTo(_, _)
\* the sequences over S of length at most n
SeqsUpTo(S, n) ==
    IF n = 0 THEN {<<>>}
    ELSE SeqsUpTo(S, n - 1)
           \cup {Append(q, x) : q \in {r \in SeqsUpTo(S, n - 1) : Len(r) = n - 1}, x \in S}

\* sources : list[str] | None
SourceLists == {None} \cup {Some(l) : l \in SeqsUpTo(Citations, MaxSources)}

FreshNames == << <<"N">>, <<"T">>, <<"U">>, <<"V">>, <<"W">> >>
UnknownName == <<"X">>
DefaultSources == Some(<< <<"d">> >>)

RECURSIVE DepthSeqs(_)
\* the depths of the nodes of a forest of n nodes, in preorder
DepthSeqs(n) ==
    IF n = 1 THEN {<<0>>}
    ELSE UNION {{Append(d, k) : k \in 0..(d[n - 1] + 1)} : d \in DepthSeqs(n - 1)}

SeqMax(q) == CHOOSE m \in Range(q) : \A x \in Range(q) : x <= m

RECURSIVE LabelSeqs(_)
\* names of n nodes up to renaming: each node repeats an earlier name or
\* takes the next fresh one
LabelSeqs(n) ==
    IF n = 1 THEN {<<1>>}
    ELSE UNION {{Append(l, k) : k \in 1..(SeqMax(l) + 1)} : l \in LabelSeqs(n - 1)}

\* index of the first item after the first whose depth is at most lvl
RECURSIVE BlockEnd(_, _, _)
BlockEnd(items, lvl, j) ==
    IF j > Len(items) \/ items[j].depth <= lvl THEN j ELSE BlockEnd(items, lvl, j + 1)

RECURSIVE MkHierarchy(_, _)
\* the ConceptHierarchy of a preorder list of [depth, name, sources]
MkHierarchy(items, lvl) ==
    IF items = <<>> THEN <<>>
    ELSE LET j == BlockEnd(items, lvl, 2)
             kids == SubSeq(items, 2, j - 1)
         IN << [key |-> items[1].name,
                value |-> [sources |-> items[1].sources,
                           consists_of |-> IF kids = <<>> THEN None
                                           ELSE Some(MkHierarchy(kids, lvl + 1))]] >>
              \o MkHierarchy(SubSeq(items, j, Len(items)), lvl)

RECURSIVE MkConcepts(_, _)
\* the Concept list of a preorder list of [depth, name, sources, related, description]
MkConcepts(items, lvl) ==
    IF items = <<>> THEN <<>>
    ELSE LET j == BlockEnd(items, lvl, 2)
             kids == SubSeq(items, 2, j - 1)
         IN << [title |-> items[1].name,
                description |-> items[1].description,
                related |-> items[1].related,
                source |-> items[1].sources,
                consist_of |-> IF kids = <<>> THEN None
                               ELSE Some(MkConcepts(kids, lvl + 1))] >>
              \o MkConcepts(SubSeq(items, j, Len(items)), lvl)

RECURSIVE UniqueKeys(_)
\* a parsed JSON object holds each key once, at every level
UniqueKeys(h) ==
    /\ \A i, j \in 1..Len(h) : h[i].key = h[j].key => i = j
    /\ \A i \in 1..Len(h) :
          Truthy(h[i].value.consists_of) => UniqueKeys(Get(h[i].value.consists_of))

Underscored(k, name) == [i \in 1..k |-> "_"] \o name

\* the tree of shape d and naming l, each node citing document d
ShapeHierarchy(d, l) ==
    MkHierarchy([i \in 1..Len(d) |->
                    [depth |-> d[i], name |-> FreshNames[l[i]],
                     sources |-> DefaultSources]], 0)

\* a root citing s, or a root and its child citing s
CitationHierarchy(s, nested) ==
    IF nested
    THEN MkHierarchy(<< [depth |-> 0, name |-> <<"N">>, sources |-> None],
                        [depth |-> 1, name |-> <<"T">>, sources |-> s] >>, 0)
    ELSE MkHierarchy(<< [depth |-> 0, name |-> <<"N">>, sources |-> s] >>, 0)

\* two nodes, siblings or parent and child, named T behind k1 and k2
\* underscores
UnderscoreHierarchy(k1, k2, d) ==
    MkHierarchy(<< [depth |-> 0, name |-> Underscored(k1, <<"T">>),
                    sources |-> DefaultSources],
                   [depth |-> d, name |-> Underscored(k2, <<"T">>),
                    sources |-> DefaultSources] >>, 0)

\* the response of the Networking > {TCP, UDP} scenario: TCP -> [UDP,
\* Networking, TCP], with N, T, U for the three names
ScenarioKey == <<"T">>
ScenarioList == << <<"U">>, <<"N">>, <<"T">> >>

\* the related lists over the names of a tree and the unknown name
RelatedLists(names) == SeqsUpTo(names \cup {UnknownName}, MaxRelated)

\* the tree of shape d and naming l (a list may repeat a title), whose
\* concept number at carries the related list r
ShapeMap(d, l, at, r) ==
    MkConcepts([i \in 1..Len(d) |->
                   [depth |-> d[i], name |-> FreshNames[l[i]],
                    sources |-> DefaultSources,
                    related |-> IF i = at THEN Some(r) ELSE None,
                    description |-> None]], 0)

\* a described root citing s whose consist_of is the empty list, or a root
\* and its child citing s
CitationMap(s, nested) ==
    IF nested
    THEN MkConcepts(<< [depth |-> 0, name |-> <<"N">>, sources |-> None,
                        related |-> Some(<<>>), description |-> None],
                       [depth |-> 1, name |-> <<"T">>, sources |-> s,
                        related |-> None, description |-> None] >>, 0)
    ELSE << [title |-> <<"N">>, description |-> Some(<<"x">>), related |-> None,
             source |-> s, consist_of |-> Some(<<>>)] >>

\* knowledge maps a client may send with an edit request
PriorMaps ==
    { << [title |-> <<"N">>, description |-> None, related |-> None,
          source |-> DefaultSources, consist_of |-> None] >> }

(***************************************************************************)
(* One operation at a time: BuildMapPipeline.build and EditMapPipeline.edit*)
(***************************************************************************)
VARIABLES
    op,         \* the operation under way: none, build, edit
    pc,         \* where the operation stands: idle, await_hierarchy,
                \* await_related, await_edit, done, failed
    material,   \* the documents of the operation
    allowed,    \* get_allowed_sources(material)
    priorMap,   \* the knowledge_map argument of edit
    pending,    \* a completion call is in flight and not yet answered
    reply,      \* the answer to the latest completion call
    hierarchy,  \* the normalized hierarchy of a build
    related,    \* the cleaned relation map of a build
    result,     \* the knowledge map the operation returned
    error,      \* what the operation raised
    BASIC_MILESTONES  \* the module-level milestone list of logic.py

vars == <<op, pc, material, allowed, priorMap, pending, reply, hierarchy, related,
          result, error, BASIC_MILESTONES>>

NoReply == [status |-> "none", parsed |-> <<>>]
Parsed(x) == [status |-> "parsed", parsed |-> x]
\* the call raised, or message.parsed is None
Failed == [status |-> "error", parsed |-> <<>>]

Init ==
    /\ op = "none"
    /\ pc = "idle"
    /\ material = <<>>
    /\ allowed = <<>>
    /\ priorMap = <<>>
    /\ pending = FALSE
    /\ reply = NoReply
    /\ hierarchy = <<>>
    /\ related = <<>>
    /\ result = <<>>
    /\ error = "none"
    /\ BASIC_MILESTONES = InitialMilestones

\* build: _build_hierarchy up to its completion call
StartBuild ==
    /\ pc = "idle"
    /\ op' = "build"
    /\ \E mat \in Materials :
          /\ material' = mat
          /\ allowed' = get_allowed_sources(mat)
    /\ pc' = "await_hierarchy"
    /\ pending' = TRUE
    /\ reply' = NoReply
    /\ priorMap' = <<>>
    /\ hierarchy' = <<>>
    /\ related' = <<>>
    /\ result' = <<>>
    /\ error' = "none"
    /\ UNCHANGED BASIC_MILESTONES

\* edit up to its completion call
StartEdit ==
    /\ pc = "idle"
    /\ op' = "edit"
    /\ \E mat \in Materials :
          /\ material' = mat
          /\ allowed' = utils_get_allowed_sources(mat)
    /\ \E km \in PriorMaps : priorMap' = km
    /\ pc' = "await_edit"
    /\ pending' = TRUE
    /\ reply' = NoReply
    /\ hierarchy' = <<>>
    /\ related' = <<>>
    /\ result' = <<>>
    /\ error' = "none"
    /\ UNCHANGED BASIC_MILESTONES

\* roadmap_rewrite: KnowledgeMap(**json.loads(knowledge_map)) raises for a
\* text that is no JSON object of the KnowledgeMap shape; edit is not called
EditInputMalformed ==
    /\ pc = "idle"
    /\ op' = "edit"
    /\ pc' = "failed"
    /\ error' = "MalformedEditInput"
    /\ UNCHANGED <<material, allowed, priorMap, pending, reply, hierarchy, related,
                   result>>
    /\ UNCHANGED BASIC_MILESTONES

\* the HTTP status a failed operation is answered with: roadmap_rewrite
\* turns every exception into HTTPException(400); roadmap_from_files has
\* no handler, which the framework answers with 500
status_code(operation, kind) == IF operation = "edit" THEN 400 ELSE 500

\* the service answers the hierarchy request with a ConceptHierarchyModel
HierarchyCompletion ==
    /\ pc = "await_hierarchy" /\ pending
    /\ \/ \E n \in 1..MaxNodes : \E d \in DepthSeqs(n), l \in LabelSeqs(n) :
             /\ UniqueKeys(ShapeHierarchy(d, l))
             /\ reply' = Parsed(ShapeHierarchy(d, l))
       \/ \E s \in SourceLists, nested \in BOOLEAN :
             reply' = Parsed(CitationHierarchy(s, nested))
       \/ \E k1 \in 0..MaxUnderscores, k2 \in 0..MaxUnderscores, d \in 0..1 :
             /\ UniqueKeys(UnderscoreHierarchy(k1, k2, d))
             /\ reply' = Parsed(UnderscoreHierarchy(k1, k2, d))
    /\ pending' = FALSE
    /\ UNCHANGED <<op, pc, material, allowed, priorMap, hierarchy, related, result, error>>
    /\ UNCHANGED BASIC_MILESTONES

\* the service answers the relation request with RelatedConcepts: no entry,
\* or one entry for a concept of the hierarchy
RelatedCompletion ==
    /\ pc = "await_related" /\ pending
    /\ \/ reply' = Parsed(<<>>)
       \/ \E k \in flatten_hierarchy(hierarchy) :
          \E l \in RelatedLists(flatten_hierarchy(hierarchy)) :
             reply' = Parsed(<< [key |-> k, value |-> Some(l)] >>)
       \/ /\ ScenarioKey \in flatten_hierarchy(hierarchy)
          /\ reply' = Parsed(<< [key |-> ScenarioKey, value |-> Some(ScenarioList)] >>)
    /\ pending' = FALSE
    /\ UNCHANGED <<op, pc, material, allowed, priorMap, hierarchy, related, result, error>>
    /\ UNCHANGED BASIC_MILESTONES

\* the service answers the edit request with a KnowledgeMap
EditCompletion ==
    /\ pc = "await_edit" /\ pending
    /\ \/ reply' = Parsed(<<>>)
       \/ \E n \in 1..MaxNodes : \E d \in DepthSeqs(n), l \in LabelSeqs(n) :
          \E at \in 1..n, r \in RelatedLists({FreshNames[l[i]] : i \in 1..n}) :
             reply' = Parsed(ShapeMap(d, l, at, r))
       \/ \E s \in SourceLists, nested \in BOOLEAN :
             reply' = Parsed(CitationMap(s, nested))
    /\ pending' = FALSE
    /\ UNCHANGED <<op, pc, material, allowed, priorMap, hierarchy, related, result, error>>
    /\ UNCHANGED BASIC_MILESTONES

\* the call raises, or answers without parsed content
CompletionFails ==
    /\ pc \in {"await_hierarchy", "await_related", "await_edit"} /\ pending
    /\ reply' = Failed
    /\ pending' = FALSE
    /\ UNCHANGED <<op, pc, material, allowed, priorMap, hierarchy, related, result, error>>
    /\ UNCHANGED BASIC_MILESTONES

\* a variant in which the failure is swallowed and the operation returns
\* what it has (tested against C13)
Raise_swallowed(kind) ==
    /\ pc' = "done"
    /\ error' = kind
    /\ pending' = FALSE
    /\ UNCHANGED <<op, material, allowed, priorMap, reply, hierarchy, related, result>>

\* the exception leaves the pipeline: nothing is returned, nothing is awaited
Raise(kind) ==
    /\ pc' = "failed"
    /\ error' = kind
    /\ pending' = FALSE
    /\ UNCHANGED <<op, material, allowed, priorMap, reply, hierarchy, related, result>>

\* a variant of the step that issues the hierarchy request again when the
\* call failed (tested against C14)
ResumeBuildHierarchy_retrying ==
    /\ pc = "await_hierarchy" /\ ~pending
    /\ IF reply.status = "error"
       THEN /\ pending' = TRUE
            /\ UNCHANGED <<op, pc, material, allowed, priorMap, reply, hierarchy,
                           related, result, error>>
       ELSE LET normalized == preprocess_hierarchy(reply.parsed, allowed)
            IN IF ~normalized.ok THEN Raise("ValidationError")
               ELSE /\ hierarchy' = normalized.value
                    /\ pc' = "await_related"
                    /\ pending' = TRUE
                    /\ UNCHANGED <<op, material, allowed, priorMap, reply, related,
                                   result, error>>
    /\ UNCHANGED BASIC_MILESTONES

\* _build_hierarchy after its await, then _link_related up to its call
ResumeBuildHierarchy ==
    /\ pc = "await_hierarchy" /\ ~pending
    /\ IF reply.status = "error" THEN Raise("GenerationFailure")
       ELSE LET normalized == preprocess_hierarchy(reply.parsed, allowed)
            IN IF ~normalized.ok THEN Raise("ValidationError")
               ELSE /\ hierarchy' = normalized.value
                    /\ pc' = "await_related"
                    /\ pending' = TRUE
                    /\ UNCHANGED <<op, material, allowed, priorMap, reply, related,
                                   result, error>>
    /\ UNCHANGED BASIC_MILESTONES

\* _link_related after its await, then the assembly of the knowledge map
ResumeLinkRelated ==
    /\ pc = "await_related" /\ ~pending
    /\ IF reply.status = "error" THEN Raise("GenerationFailure")
       ELSE LET cleaned == preprocess_related(reply.parsed, hierarchy)
            IN IF ~cleaned.ok THEN Raise("TypeError")
               ELSE /\ related' = cleaned.value
                    /\ result' = convert_hierarchy_to_concepts(hierarchy, cleaned.value)
                    /\ pc' = "done"
                    /\ UNCHANGED <<op, material, allowed, priorMap, pending, reply,
                                   hierarchy, error>>
    /\ UNCHANGED BASIC_MILESTONES

\* edit after its await
ResumeEdit ==
    /\ pc = "await_edit" /\ ~pending
    /\ IF reply.status = "error" THEN Raise("GenerationFailure")
       ELSE /\ result' = preprocess_edited_map(reply.parsed, allowed)
            /\ pc' = "done"
            /\ UNCHANGED <<op, material, allowed, priorMap, pending, reply,
                           hierarchy, related, error>>
    /\ UNCHANGED BASIC_MILESTONES

\* the request handler returns the knowledge map, or the error, to the client
Respond ==
    /\ pc \in {"done", "failed"}
    /\ op' = "none"
    /\ pc' = "idle"
    /\ material' = <<>>
    /\ allowed' = <<>>
    /\ priorMap' = <<>>
    /\ pending' = FALSE
    /\ reply' = NoReply
    /\ hierarchy' = <<>>
    /\ related' = <<>>
    /\ result' = <<>>
    /\ error' = "none"
    /\ UNCHANGED BASIC_MILESTONES

Next ==
    \/ StartBuild
    \/ StartEdit
    \/ EditInputMalformed
    \/ HierarchyCompletion
    \/ RelatedCompletion
    \/ EditCompletion
    \/ CompletionFails
    \/ ResumeBuildHierarchy
    \/ ResumeLinkRelated
    \/ ResumeEdit
    \/ Respond

Spec == Init /\ [][Next]_vars

(***************************************************************************)
(* Vocabulary of the properties                                            *)
(***************************************************************************)
\* the hierarchy request was answered and its answer normalized: reply is
\* the raw hierarchy, hierarchy the normalized one
BuildNormalized == op = "build" /\ pc = "await_related" /\ pending

\* a build returned: reply is the raw relation map
BuildDone == op = "build" /\ pc = "done"

\* an edit returned: reply is the raw knowledge map
EditDone == op = "edit" /\ pc = "done"

RECURSIVE AllConcepts(_)
\* the concepts of a concept list, at any depth
AllConcepts(cs) ==
    UNION { {cs[i]} \cup (IF Truthy(cs[i].consist_of)
                          THEN AllConcepts(Get(cs[i].consist_of)) ELSE {})
            : i \in 1..Len(cs) }

Titles(cs) == {c.title : c \in AllConcepts(cs)}

RECURSIVE AllNodes(_)
\* the entries of a hierarchy, at any depth
AllNodes(h) ==
    UNION { {h[i]} \cup (IF Truthy(h[i].value.consists_of)
                         THEN AllNodes(Get(h[i].value.consists_of)) ELSE {})
            : i \in 1..Len(h) }

RECURSIVE NodeSources(_)
\* the citation lists of the nodes of a hierarchy, in preorder
NodeSources(h) ==
    Flat([i \in 1..Len(h) |->
            <<h[i].value.sources>>
              \o (IF Truthy(h[i].value.consists_of)
                  THEN NodeSources(Get(h[i].value.consists_of)) ELSE <<>>)])

RECURSIVE ConceptSources(_)
\* the citation lists of the concepts of a concept list, in preorder
ConceptSources(cs) ==
    Flat([i \in 1..Len(cs) |->
            <<cs[i].source>>
              \o (IF Truthy(cs[i].consist_of)
                  THEN ConceptSources(Get(cs[i].consist_of)) ELSE <<>>)])

\* the citations of an optional citation list
Cited(sources) == IF IsNone(sources) THEN <<>> ELSE Get(sources)

\* normalization kept every node of the raw hierarchy in its place (no two
\* names of one parent became equal)
SameNodes == Len(NodeSources(reply.parsed)) = Len(NodeSources(hierarchy))

\* the document-id portion of a citation
DocumentId(s) == PartitionHead(s, "#")

\* the leaf heading paths the operation under way indexes in a document
IndexedPaths(content) ==
    IF op = "edit" THEN utils_get_markdown_header_paths(content)
    ELSE get_markdown_header_paths(content)

\* the citation targets the operation under way computes from its documents
Targets ==
    IF op = "edit" THEN Range(utils_get_allowed_sources(material))
    ELSE Range(get_allowed_sources(material))

(***************************************************************************)
(* C1  Citation validity: in the knowledge map the last operation (build   *)
(* or edit) returned, every citation of every concept is one of the        *)
(* targets get_allowed_sources computes from the operation's documents, or *)
(* the concept has no citations.                                           *)
(***************************************************************************)
C1_CitationValidity ==
    pc = "done" =>
       \A c \in AllConcepts(result) :
          \/ IsNone(c.source)
          \/ \A i \in 1..Len(Get(c.source)) :
                Get(c.source)[i] \in Targets

\* an edit returned a map with citations although the response cited a
\* document that does not exist
C1_Witness ==
    /\ EditDone
    /\ \E c \in AllConcepts(result) : Truthy(c.source)
    /\ \E c \in AllConcepts(reply.parsed) :
          \E i \in 1..Len(Cited(c.source)) :
             DocumentId(Cited(c.source)[i]) \notin Range(allowed)

(***************************************************************************)
(* C2  After relation cleaning in a build, the related list of a concept   *)
(* holds neither the concept's own name, nor an ancestor, nor a            *)
(* descendant, nor a name absent from the hierarchy; for Networking >      *)
(* {TCP, UDP} and TCP -> [UDP, Networking, TCP] the cleaned entry is       *)
(* TCP -> [UDP].                                                           *)
(***************************************************************************)
RECURSIVE RelatedCleanIn(_, _, _)
\* no concept of cs (whose ancestors are named above) is related to itself,
\* to a name above it, to a name below it, or to a name outside all
RelatedCleanIn(cs, above, all) ==
    \A i \in 1..Len(cs) :
       LET c == cs[i]
           below == IF Truthy(c.consist_of) THEN Titles(Get(c.consist_of)) ELSE {}
       IN /\ \A j \in 1..Len(Cited(c.related)) :
                /\ Cited(c.related)[j] # c.title
                /\ Cited(c.related)[j] \notin above
                /\ Cited(c.related)[j] \notin below
                /\ Cited(c.related)[j] \in all
          /\ Truthy(c.consist_of) =>
                RelatedCleanIn(Get(c.consist_of), above \cup {c.title}, all)

ScenarioHierarchy == ShapeHierarchy(<<0, 1, 1>>, <<1, 2, 3>>)

C2_BuildRelatedClean ==
    BuildDone =>
       /\ RelatedCleanIn(result, {}, Titles(result))
       /\ (hierarchy = ScenarioHierarchy
             /\ reply.parsed = << [key |-> ScenarioKey, value |-> Some(ScenarioList)] >>)
          => related = << [key |-> <<"T">>, value |-> Some(<< <<"U">> >>)] >>

(***************************************************************************)
(* C3  In the knowledge map an edit returns, the related list of a concept *)
(* holds neither its own title, nor the title of an ancestor or of a       *)
(* descendant in the new tree, nor a title that does not occur in the tree.*)
(***************************************************************************)
C3_EditRelatedClean ==
    EditDone => RelatedCleanIn(result, {}, Titles(result))

(***************************************************************************)
(* C4  A citation of an unknown document is removed from its node and the  *)
(* build runs to completion: a build fails only when a completion call     *)
(* fails, never because of a hallucinated citation.                        *)
(***************************************************************************)
C4_HallucinatedCitationDropped ==
    /\ (op = "build" /\ pc = "failed") => reply.status = "error"
    /\ BuildNormalized =>
          \A n \in AllNodes(hierarchy) :
             \A i \in 1..Len(Cited(n.value.sources)) :
                DocumentId(Cited(n.value.sources)[i]) \in Range(allowed)

(***************************************************************************)
(* C5  A citation that names an indexed leaf heading by its heading text   *)
(* as written in the document is rewritten to the indexed target and kept  *)
(* with its heading path, in a build and in an edit.                       *)
(***************************************************************************)
\* a header with its text as written: group(2).strip()
WrittenHeaderOf(line) ==
    [level |-> HashCount(line),
     text  |-> Strip(SubSeq(line, HashCount(line) + 1, Len(line)))]

RECURSIVE WrittenLoop(_, _, _)
\* the leaf heading paths with every heading as written, in document order
WrittenLoop(headers, i, current_path) ==
    IF i > Len(headers) THEN <<>>
    ELSE LET path == PushHeader(current_path, headers[i])
             is_leaf == \/ i = Len(headers)
                        \/ headers[i + 1].level <= headers[i].level
         IN (IF is_leaf THEN <<Join(path, "/")>> ELSE <<>>)
              \o WrittenLoop(headers, i + 1, path)

WrittenPaths(lines) ==
    WrittenLoop(Map(SelectSeq(lines, IsHeaderLine), WrittenHeaderOf), 1, <<>>)

\* [written, target]: a leaf heading cited as written, and its indexed target
WrittenCitations ==
    UNION { { [written |-> material[d].name \o <<"#">>
                              \o WrittenPaths(material[d].content)[i],
               target  |-> material[d].name \o <<"#">>
                              \o IndexedPaths(material[d].content)[i]]
              : i \in 1..Len(WrittenPaths(material[d].content)) }
            : d \in 1..Len(material) }

\* wherever raw cites a heading as written, normalized cites its target
WrittenKept(raw, normalized) ==
    \A k \in 1..Len(raw) : \A j \in 1..Len(Cited(raw[k])) :
       \A w \in WrittenCitations :
          Cited(raw[k])[j] = w.written => w.target \in Range(Cited(normalized[k]))

C5_WrittenHeadingKept ==
    /\ (BuildNormalized /\ SameNodes) =>
          WrittenKept(NodeSources(reply.parsed), NodeSources(hierarchy))
    /\ EditDone =>
          WrittenKept(ConceptSources(reply.parsed), ConceptSources(result))

(***************************************************************************)
(* C6  Citation repair, in a build and in an edit: a citation whose        *)
(* canonical form is an allowed target is kept as that form; one whose     *)
(* canonical form is not allowed but whose document id is, is replaced by  *)
(* exactly the document id.                                                *)
(***************************************************************************)
\* what the rule leaves of a citation whose canonical form is c
KeptOrTruncated(s, c) == IF c \in Range(allowed) THEN c ELSE DocumentId(s)

Survives(s, c) == c \in Range(allowed) \/ DocumentId(s) \in Range(allowed)

C6_KeepOrTruncate ==
    /\ (BuildNormalized /\ SameNodes) =>
          \A k \in 1..Len(NodeSources(hierarchy)) :
             LET raw == Cited(NodeSources(reply.parsed)[k])
                 new == Cited(NodeSources(hierarchy)[k])
             IN /\ Len(new) = Len(raw)
                /\ \A j \in 1..Len(raw) :
                      Survives(raw[j], fix_source_name(raw[j])) =>
                         new[j] = KeptOrTruncated(raw[j], fix_source_name(raw[j]))
    /\ EditDone =>
          \A k \in 1..Len(ConceptSources(result)) :
             LET raw == Cited(ConceptSources(reply.parsed)[k])
                 new == Cited(ConceptSources(result)[k])
             IN new = Map(SelectSeq(raw, LAMBDA s : Survives(s, edit_fix_source_name(s))),
                          LAMBDA s : KeptOrTruncated(s, edit_fix_source_name(s)))

\* a build normalized a node one citation of which was truncated to its
\* document id and another kept with its heading path
C6_Witness ==
    /\ BuildNormalized /\ SameNodes
    /\ \E k \in 1..Len(NodeSources(hierarchy)) :
          LET raw == Cited(NodeSources(reply.parsed)[k])
              new == Cited(NodeSources(hierarchy)[k])
          IN /\ \E j \in 1..Len(raw) :
                   /\ fix_source_name(raw[j]) \notin Range(allowed)
                   /\ new[j] = DocumentId(raw[j])
                   /\ new[j] # raw[j]
             /\ \E j \in 1..Len(raw) :
                   /\ fix_source_name(raw[j]) \in Range(allowed)
                   /\ Find(new[j], "#") # 0

(***************************************************************************)
(* C7  After relation cleaning in a build the relation map has no entry    *)
(* whose related list is empty or absent: an entry whose filtered list is  *)
(* empty is removed, key and all.                                          *)
(***************************************************************************)
C7_NoEmptyRelationEntry ==
    BuildDone => \A i \in 1..Len(related) : Truthy(related[i].value)

(***************************************************************************)
(* C8  Hierarchy normalization is idempotent: normalizing the normalized   *)
(* hierarchy again, with the same allowed targets, succeeds and changes    *)
(* neither names, nor citation lists, nor structure.                       *)
(***************************************************************************)
C8_HierarchyIdempotent ==
    BuildNormalized =>
       preprocess_hierarchy(hierarchy, allowed) = [ok |-> TRUE, value |-> hierarchy]

(***************************************************************************)
(* C9  Relation cleaning is idempotent: cleaning the cleaned relation map  *)
(* again, with the same hierarchy, succeeds and yields the same map.       *)
(***************************************************************************)
C9_RelatedIdempotent ==
    BuildDone =>
       preprocess_related(related, hierarchy) = [ok |-> TRUE, value |-> related]

(***************************************************************************)
(* C10  Flattening is complete and duplicate-free: flatten_hierarchy and   *)
(* flatten_map return exactly the set of the names reachable through       *)
(* consists_of / consist_of at any depth.                                  *)
(***************************************************************************)
RECURSIVE NamesByLevel(_)
\* the names of a level of nodes and of all the levels below it
NamesByLevel(level) ==
    IF level = <<>> THEN {}
    ELSE {level[i].key : i \in 1..Len(level)}
           \cup NamesByLevel(Flat([i \in 1..Len(level) |->
                    IF IsNone(level[i].value.consists_of) THEN <<>>
                    ELSE Get(level[i].value.consists_of)]))

RECURSIVE TitlesByLevel(_)
TitlesByLevel(level) ==
    IF level = <<>> THEN {}
    ELSE {level[i].title : i \in 1..Len(level)}
           \cup TitlesByLevel(Flat([i \in 1..Len(level) |->
                    IF IsNone(level[i].consist_of) THEN <<>>
                    ELSE Get(level[i].consist_of)]))

C10_FlattenComplete ==
    /\ BuildNormalized =>
          /\ flatten_hierarchy(hierarchy) = NamesByLevel(hierarchy)
          /\ flatten_hierarchy(reply.parsed) = NamesByLevel(reply.parsed)
    /\ EditDone =>
          flatten_map(Some(reply.parsed)) = TitlesByLevel(reply.parsed)

\* a normalized hierarchy three levels deep, one name of which occurs twice
C10_Witness ==
    /\ BuildNormalized
    /\ Len(NodeSources(hierarchy)) = 3
    /\ Cardinality(NamesByLevel(hierarchy)) = 2
    /\ \E i \in 1..Len(hierarchy) :
          /\ Truthy(hierarchy[i].value.consists_of)
          /\ Truthy(Get(hierarchy[i].value.consists_of)[1].value.consists_of)

(***************************************************************************)
(* The header-path indexer on its own: get_allowed_sources applied to      *)
(* documents drawn from bounded sets of lines                              *)
(***************************************************************************)
\* lines of one document
MaxLines == 3
\* deepest heading level of a generated heading line
MaxLevel == 3

HeaderTexts == <<"a", "b", "c", "g", "h">>

\* '#' * level + ' ' + text
HeadingLine(level, text) == [i \in 1..level |-> "#"] \o <<" ", text>>

\* the lines a document may have at position i: a heading of each level,
\* whose text names the position; plain text; a '#' not followed by
\* whitespace; more '#' than the pattern admits
LinesAt(i) ==
    { HeadingLine(l, HeaderTexts[((i - 1) % Len(HeaderTexts)) + 1]) : l \in 1..MaxLevel }
      \cup { <<"t">>, <<"#", "x">>, HeadingLine(MaxHeaderLevel + 1, "z") }

\* the documents of n lines
DocsOfLen(n) == { c \in [1..n -> UNION {LinesAt(i) : i \in 1..n}] :
                     \A i \in 1..n : c[i] \in LinesAt(i) }

\* the materials of one or two documents, the first of at most lines lines
IndexMaterials(lines) ==
    UNION { { << Doc(<<"d">>, c) >> : c \in DocsOfLen(n) }
              \cup { << Doc(<<"d">>, c), Doc(<<"e">>, c2) >> :
                        c \in DocsOfLen(n), c2 \in DocsOfLen(0) \cup DocsOfLen(1) }
            : n \in 1..lines }

IndexInit ==
    /\ op = "none"
    /\ pc = "idle"
    /\ material \in IndexMaterials(MaxLines)
    /\ allowed = <<>>
    /\ priorMap = <<>>
    /\ pending = FALSE
    /\ reply = NoReply
    /\ hierarchy = <<>>
    /\ related = <<>>
    /\ result = <<>>
    /\ error = "none"
    /\ BASIC_MILESTONES = InitialMilestones

\* _build_hierarchy: sources = get_allowed_sources(material)
IndexForBuild ==
    /\ pc = "idle"
    /\ op' = "build"
    /\ allowed' = get_allowed_sources(material)
    /\ pc' = "indexed"
    /\ UNCHANGED <<material, priorMap, pending, reply, hierarchy, related, result, error>>
    /\ UNCHANGED BASIC_MILESTONES

\* edit: allowed_sources = get_allowed_sources(material)
IndexForEdit ==
    /\ pc = "idle"
    /\ op' = "edit"
    /\ allowed' = utils_get_allowed_sources(material)
    /\ pc' = "indexed"
    /\ UNCHANGED <<material, priorMap, pending, reply, hierarchy, related, result, error>>
    /\ UNCHANGED BASIC_MILESTONES

IndexNext == IndexForBuild \/ IndexForEdit

IndexSpec == IndexInit /\ [][IndexNext]_vars

Indexed == pc = "indexed"

(***************************************************************************)
(* C11  get_markdown_header_paths emits one path for each leaf heading, in *)
(* document order, and none for a non-leaf heading; a heading is a leaf    *)
(* iff it is the last heading or the next heading is not deeper.  For      *)
(* headings a (level 1), b (level 2), c (level 1) the output is            *)
(* [a/b, c].                                                               *)
(***************************************************************************)
\* the positions, in document order, of the leaf headings among hs
LeafPositions(hs) ==
    SelectSeq([i \in 1..Len(hs) |-> i],
              LAMBDA i : i = Len(hs) \/ hs[i + 1].level <= hs[i].level)

LastSegment(path) == Split(path, "/")[Len(Split(path, "/"))]

ScenarioDocument == << HeadingLine(1, "a"), HeadingLine(2, "b"), HeadingLine(1, "c") >>

Reversed(s) == [i \in 1..Len(s) |-> s[Len(s) + 1 - i]]

\* id#path for the leaf-heading paths of one document
HeadingTargets(entry) ==
    { entry.name \o <<"#">> \o IndexedPaths(entry.content)[k]
      : k \in 1..Len(IndexedPaths(entry.content)) }

C12_AllowedTargets ==
    Indexed =>
       /\ Range(allowed) =
             UNION { {material[d].name} \cup HeadingTargets(material[d])
                     : d \in 1..Len(material) }
       /\ \A d \in 1..Len(material) :
             ParseHeaders(material[d].content) = <<>> =>
                { t \in Range(allowed) : DocumentId(t) = material[d].name }
                   = {material[d].name}
       /\ Range(allowed) =
             (IF op = "edit" THEN Range(utils_get_allowed_sources(Reversed(material)))
              ELSE Range(get_allowed_sources(Reversed(material))))

\* two documents were indexed, one with headings and one without
C12_Witness ==
    /\ Indexed
    /\ Len(material) = 2
    /\ ParseHeaders(material[2].content) = <<>>
    /\ Len(ParseHeaders(material[1].content)) >= 2
    /\ Len(allowed) >= 4

(***************************************************************************)
(* C13  When a completion call of a build or an edit fails (the call       *)
(* raises, or answers without parsed content), the operation ends in one   *)
(* terminal failure: it returns no knowledge map, partial or complete, and *)
(* issues no further completion call.                                      *)
(***************************************************************************)
C13_FailureIsTerminal ==
    [][ reply.status = "error" =>
           /\ pc = "failed" \/ pc' = "failed"
           /\ pc' # "done"
           /\ ~pending'
           /\ result' = <<>>
           /\ pc' = "failed" => error' = "GenerationFailure" ]_vars

\* the second completion call of a build failed after the first had
\* succeeded: the build has a hierarchy and has failed
C13_Witness ==
    /\ op = "build" /\ pc = "failed"
    /\ reply.status = "error"
    /\ hierarchy # <<>>
    /\ result = <<>>

(***************************************************************************)
(* C14  Within one build the requests are issued in sequence: the relation *)
(* request only after the hierarchy request has succeeded and its answer   *)
(* has been normalized, never while another request is in flight, and no   *)
(* request twice; an edit issues one request.                              *)
(***************************************************************************)
\* how far an operation is
Stage(p) ==
    CASE p = "idle" -> 0
      [] p \in {"await_hierarchy", "await_edit"} -> 1
      [] p = "await_related" -> 2
      [] OTHER -> 3

\* this step issues a completion request
Issues == pending' /\ (~pending \/ pc' # pc)

C14_RequestsInSequence ==
    [][ /\ pc' # "idle" => Stage(pc') >= Stage(pc)
        /\ Issues =>
              /\ ~pending
              /\ Stage(pc') > Stage(pc)
              /\ \/ pc = "idle" /\ pc' = "await_hierarchy" /\ op' = "build"
                 \/ pc = "idle" /\ pc' = "await_edit" /\ op' = "edit"
                 \/ /\ op = "build" /\ pc = "await_hierarchy" /\ pc' = "await_related"
                    /\ reply.status = "parsed"
                    /\ preprocess_hierarchy(reply.parsed, allowed)
                          = [ok |-> TRUE, value |-> hierarchy'] ]_vars

\* the relation request of a build is in flight
C14_Witness ==
    /\ op = "build" /\ pc = "await_related" /\ pending
    /\ reply.status = "parsed"
    /\ Len(hierarchy) >= 2

(***************************************************************************)
(* C16  On the edit path a prior knowledge map that does not parse into    *)
(* the expected shape is surfaced as a failure that differs in kind or     *)
(* status from the failure surfaced when the completion service returns no *)
(* usable content.                                                         *)
(***************************************************************************)
C16_MalformedInputDistinct ==
    (op = "edit" /\ pc = "failed" /\ error = "MalformedEditInput") =>
       status_code(op, error) # status_code("edit", "GenerationFailure")

(***************************************************************************)
(* C17  Concept names are unique across the whole hierarchy: no two nodes  *)
(* of the normalized hierarchy of a build, and no two concepts of the map  *)
(* it returns, at any depth and under any parent, share a name.            *)
(***************************************************************************)
C17_NamesUnique ==
    /\ BuildNormalized =>
          Cardinality(NamesByLevel(hierarchy)) = Len(NodeSources(hierarchy))
    /\ BuildDone =>
          Cardinality(TitlesByLevel(result)) = Len(ConceptSources(result))

(***************************************************************************)
(* C18  The map editor runs the same normalization as the build: for the   *)
(* same tree, citations, related lists and allowed targets,                *)
(* preprocess_edited_map yields the titles, citation lists and related     *)
(* lists that preprocess_hierarchy, preprocess_related and the assembly    *)
(* yield, and fails exactly when they fail.                                *)
(***************************************************************************)
RECURSIVE AsHierarchy(_)
\* the tree of a concept list as a hierarchy: names, citations, children
AsHierarchy(cs) ==
    [i \in 1..Len(cs) |->
        [key   |-> cs[i].title,
         value |-> [sources     |-> cs[i].source,
                    consists_of |-> IF Truthy(cs[i].consist_of)
                                    THEN Some(AsHierarchy(Get(cs[i].consist_of)))
                                    ELSE None]]]

RECURSIVE AsRelated(_)
\* the related lists of a concept list as a relation map, in preorder
AsRelated(cs) ==
    Flat([i \in 1..Len(cs) |->
            (IF IsNone(cs[i].related) THEN <<>>
             ELSE << [key |-> cs[i].title, value |-> cs[i].related] >>)
              \o (IF Truthy(cs[i].consist_of)
                  THEN AsRelated(Get(cs[i].consist_of)) ELSE <<>>)])

RECURSIVE Outline(_)
\* titles, citation lists, related lists and structure of a concept list
Outline(cs) ==
    [i \in 1..Len(cs) |->
        [title      |-> cs[i].title,
         source     |-> cs[i].source,
         related    |-> cs[i].related,
         consist_of |-> IF Truthy(cs[i].consist_of)
                        THEN Some(Outline(Get(cs[i].consist_of))) ELSE None]]

\* no two concepts of the list, at any depth, share a title
DistinctTitles(cs) == Cardinality(TitlesByLevel(cs)) = Len(ConceptSources(cs))

C18_EditNormalizesAsBuild ==
    (EditDone /\ DistinctTitles(reply.parsed)) =>
       LET h == preprocess_hierarchy(AsHierarchy(reply.parsed), allowed)
       IN /\ h.ok
          /\ LET r == preprocess_related(AsRelated(reply.parsed), h.value)
             IN /\ r.ok
                /\ Outline(convert_hierarchy_to_concepts(h.value, r.value))
                      = Outline(result)

(***************************************************************************)
(* C19  The assembled map mirrors the hierarchy node for node: one concept *)
(* per node, titled by the node's name, without description, related to    *)
(* the cleaned relation-map value of that name (absent if there is none),  *)
(* citing the node's citation list, its children the assembled children of *)
(* the node in their order (absent for a leaf); the order of the roots is  *)
(* kept and no concept is added or lost.                                   *)
(***************************************************************************)
RECURSIVE Mirrors(_, _, _)
Mirrors(nodes, concepts, related_map) ==
    /\ Len(concepts) = Len(nodes)
    /\ \A i \in 1..Len(nodes) :
          LET node == nodes[i].value
              c == concepts[i]
          IN /\ c.title = nodes[i].key
             /\ IsNone(c.description)
             /\ \A j \in 1..Len(related_map) :
                   related_map[j].key = c.title => c.related = related_map[j].value
             /\ (\A j \in 1..Len(related_map) : related_map[j].key # c.title)
                   => IsNone(c.related)
             /\ c.source = node.sources
             /\ IF Truthy(node.consists_of)
                THEN /\ ~IsNone(c.consist_of)
                     /\ Mirrors(Get(node.consists_of), Get(c.consist_of), related_map)
                ELSE IsNone(c.consist_of)

RECURSIVE AncestorsOfName(_, _, _)
\* the names above some node of h that is named k
AncestorsOfName(h, above, k) ==
    UNION { (IF h[i].key = k THEN above ELSE {})
              \cup (IF Truthy(h[i].value.consists_of)
                    THEN AncestorsOfName(Get(h[i].value.consists_of),
                                         above \cup {h[i].key}, k)
                    ELSE {})
            : i \in 1..Len(h) }

\* the names below some node of h that is named k
DescendantsOfName(h, k) ==
    UNION { IF n.key = k /\ Truthy(n.value.consists_of)
            THEN NamesByLevel(Get(n.value.consists_of)) ELSE {}
            : n \in AllNodes(h) }

\* the legitimate names of list, those satisfying legit, are the same in kept
SameLegit(list, kept, legit(_)) == SelectSeq(kept, legit) = SelectSeq(list, legit)

RECURSIVE LegitKeptIn(_, _, _, _)
\* the legitimate links of the concepts of raw (whose ancestors are named
\* above) are in the concepts of new, in their order
LegitKeptIn(raw, new, above, all) ==
    /\ Len(new) = Len(raw)
    /\ \A i \in 1..Len(raw) :
          LET c == raw[i]
              below == IF Truthy(c.consist_of) THEN Titles(Get(c.consist_of)) ELSE {}
          IN /\ SameLegit(Cited(c.related), Cited(new[i].related),
                          LAMBDA x : /\ x \in all /\ x # c.title
                                     /\ x \notin above /\ x \notin below)
             /\ Truthy(c.consist_of) =>
                   /\ Truthy(new[i].consist_of)
                   /\ LegitKeptIn(Get(c.consist_of), Get(new[i].consist_of),
                                  above \cup {c.title}, all)

\* the build half: the entries of the relation map, keyed by name
BuildLegitKept ==
    /\ Len(related) = Len(reply.parsed)
    /\ \A i \in 1..Len(reply.parsed) :
          LET k == reply.parsed[i].key
          IN /\ related[i].key = k
             /\ SameLegit(Cited(reply.parsed[i].value), Cited(related[i].value),
                          LAMBDA x : /\ x \in NamesByLevel(hierarchy) /\ x # k
                                     /\ x \notin AncestorsOfName(hierarchy, {}, k)
                                     /\ x \notin DescendantsOfName(hierarchy, k))

C20_LegitimateLinksKept ==
    /\ BuildDone => BuildLegitKept
    /\ EditDone => LegitKeptIn(reply.parsed, result, {}, Titles(reply.parsed))

(***************************************************************************)
(* Two operations at once.  The pipelines are module-level objects shared  *)
(* by all requests; build and edit keep everything they compute in locals  *)
(* of their own coroutine.  In this specification every variable maps an   *)
(* operation to the value of that local in its coroutine, and a step of    *)
(* one operation is taken between any two steps of the other.              *)
(***************************************************************************)
Operations == {"a", "b"}

\* a variant in which the value is kept on the shared pipeline object, where
\* every operation finds the value of one of them (tested against C15)
Local_on_pipeline(x, i) == x["a"]

\* the value of the local x in the coroutine of operation i
Local(x, i) == x[i]

\* assignment to the local x of operation i
Assign(x, i, v) == [x EXCEPT ![i] = v]

ConcCitations ==
    { <<"d", "#", "I", "-", "o">>, <<"d", "#", "I", "-", "o", "/", "S">>,
      <<"u", "#", "Z">> }

\* hierarchy answers: a root with one citation, or the tree N > {T, U}
ConcHierarchies ==
    { CitationHierarchy(Some(<<c>>), FALSE) : c \in ConcCitations }
      \cup { ShapeHierarchy(<<0, 1, 1>>, <<1, 2, 3>>) }

\* relation answers for the hierarchy h: no entry, or one name for one concept
ConcRelated(h) ==
    { <<>> } \cup { << [key |-> k, value |-> Some(<<x>>)] >> :
                      k \in flatten_hierarchy(h), x \in flatten_hierarchy(h) }

\* edit answers: a root with one citation
ConcMaps == { CitationMap(Some(<<c>>), FALSE) : c \in ConcCitations }

ConcInit ==
    /\ op = [i \in Operations |-> "none"]
    /\ pc = [i \in Operations |-> "idle"]
    /\ material = [i \in Operations |-> <<>>]
    /\ allowed = [i \in Operations |-> <<>>]
    /\ priorMap = [i \in Operations |-> <<>>]
    /\ pending = [i \in Operations |-> FALSE]
    /\ reply = [i \in Operations |-> NoReply]
    /\ hierarchy = [i \in Operations |-> <<>>]
    /\ related = [i \in Operations |-> <<>>]
    /\ result = [i \in Operations |-> <<>>]
    /\ error = [i \in Operations |-> "none"]
    /\ BASIC_MILESTONES = InitialMilestones

\* build: _build_hierarchy up to its completion call
ConcStartBuild(i) ==
    /\ Local(pc, i) = "idle"
    /\ op' = Assign(op, i, "build")
    /\ \E mat \in Materials :
          /\ material' = Assign(material, i, mat)
          /\ allowed' = Assign(allowed, i, get_allowed_sources(mat))
    /\ pc' = Assign(pc, i, "await_hierarchy")
    /\ pending' = Assign(pending, i, TRUE)
    /\ UNCHANGED <<priorMap, reply, hierarchy, related, result, error>>
    /\ UNCHANGED BASIC_MILESTONES

\* edit up to its completion call
ConcStartEdit(i) ==
    /\ Local(pc, i) = "idle"
    /\ op' = Assign(op, i, "edit")
    /\ \E mat \in Materials :
          /\ material' = Assign(material, i, mat)
          /\ allowed' = Assign(allowed, i, utils_get_allowed_sources(mat))
    /\ \E km \in PriorMaps : priorMap' = Assign(priorMap, i, km)
    /\ pc' = Assign(pc, i, "await_edit")
    /\ pending' = Assign(pending, i, TRUE)
    /\ UNCHANGED <<reply, hierarchy, related, result, error>>
    /\ UNCHANGED BASIC_MILESTONES

\* the service answers the call operation i awaits, or the call fails
ConcCompletion(i) ==
    /\ Local(pending, i)
    /\ \/ /\ Local(pc, i) = "await_hierarchy"
          /\ \E h \in ConcHierarchies : reply' = Assign(reply, i, Parsed(h))
       \/ /\ Local(pc, i) = "await_related"
          /\ \E r \in ConcRelated(Local(hierarchy, i)) :
                reply' = Assign(reply, i, Parsed(r))
       \/ /\ Local(pc, i) = "await_edit"
          /\ \E m \in ConcMaps : reply' = Assign(reply, i, Parsed(m))
       \/ reply' = Assign(reply, i, Failed)
    /\ pending' = Assign(pending, i, FALSE)
    /\ UNCHANGED <<op, pc, material, allowed, priorMap, hierarchy, related, result, error>>
    /\ UNCHANGED BASIC_MILESTONES

ConcRaise(i, kind) ==
    /\ pc' = Assign(pc, i, "failed")
    /\ error' = Assign(error, i, kind)
    /\ UNCHANGED <<op, material, allowed, priorMap, pending, reply, hierarchy,
                   related, result>>

\* _build_hierarchy after its await, then _link_related up to its call
ConcResumeBuildHierarchy(i) ==
    /\ Local(pc, i) = "await_hierarchy" /\ ~Local(pending, i)
    /\ IF Local(reply, i).status = "error" THEN ConcRaise(i, "GenerationFailure")
       ELSE LET normalized ==
                   preprocess_hierarchy(Local(reply, i).parsed, Local(allowed, i))
            IN IF ~normalized.ok THEN ConcRaise(i, "ValidationError")
               ELSE /\ hierarchy' = Assign(hierarchy, i, normalized.value)
                    /\ pc' = Assign(pc, i, "await_related")
                    /\ pending' = Assign(pending, i, TRUE)
                    /\ UNCHANGED <<op, material, allowed, priorMap, reply, related,
                                   result, error>>
    /\ UNCHANGED BASIC_MILESTONES

\* _link_related after its await, then the assembly of the knowledge map
ConcResumeLinkRelated(i) ==
    /\ Local(pc, i) = "await_related" /\ ~Local(pending, i)
    /\ IF Local(reply, i).status = "error" THEN ConcRaise(i, "GenerationFailure")
       ELSE LET cleaned ==
                   preprocess_related(Local(reply, i).parsed, Local(hierarchy, i))
            IN IF ~cleaned.ok THEN ConcRaise(i, "TypeError")
               ELSE /\ related' = Assign(related, i, cleaned.value)
                    /\ result' = Assign(result, i,
                          convert_hierarchy_to_concepts(Local(hierarchy, i),
                                                        cleaned.value))
                    /\ pc' = Assign(pc, i, "done")
                    /\ UNCHANGED <<op, material, allowed, priorMap, pending, reply,
                                   hierarchy, error>>
    /\ UNCHANGED BASIC_MILESTONES

\* edit after its await
ConcResumeEdit(i) ==
    /\ Local(pc, i) = "await_edit" /\ ~Local(pending, i)
    /\ IF Local(reply, i).status = "error" THEN ConcRaise(i, "GenerationFailure")
       ELSE /\ result' = Assign(result, i,
                  preprocess_edited_map(Local(reply, i).parsed, Local(allowed, i)))
            /\ pc' = Assign(pc, i, "done")
            /\ UNCHANGED <<op, material, allowed, priorMap, pending, reply,
                           hierarchy, related, error>>
    /\ UNCHANGED BASIC_MILESTONES

\* the request handler answers the client; the coroutine is gone
ConcRespond(i) ==
    /\ Local(pc, i) \in {"done", "failed"}
    /\ op' = Assign(op, i, "none")
    /\ pc' = Assign(pc, i, "idle")
    /\ material' = Assign(material, i, <<>>)
    /\ allowed' = Assign(allowed, i, <<>>)
    /\ priorMap' = Assign(priorMap, i, <<>>)
    /\ pending' = Assign(pending, i, FALSE)
    /\ reply' = Assign(reply, i, NoReply)
    /\ hierarchy' = Assign(hierarchy, i, <<>>)
    /\ related' = Assign(related, i, <<>>)
    /\ result' = Assign(result, i, <<>>)
    /\ error' = Assign(error, i, "none")
    /\ UNCHANGED BASIC_MILESTONES

ConcNext ==
    \E i \in Operations :
       \/ ConcStartBuild(i)
       \/ ConcStartEdit(i)
       \/ ConcCompletion(i)
       \/ ConcResumeBuildHierarchy(i)
       \/ ConcResumeLinkRelated(i)
       \/ ConcResumeEdit(i)
       \/ ConcRespond(i)

ConcSpec == ConcInit /\ [][ConcNext]_vars

(***************************************************************************)
(* C15  When two operations interleave at their completion calls, the      *)
(* result of each is the one it produces alone from its own documents and  *)
(* its own answers: no operation reads or writes the documents, allowed    *)
(* targets, hierarchy, relation map or map of the other.                   *)
(***************************************************************************)
\* everything operation i holds
Frame(i) == <<op[i], pc[i], material[i], allowed[i], priorMap[i], pending[i],
              reply[i], hierarchy[i], related[i], result[i], error[i]>>

\* what operation i holds is what it computes alone from its documents and
\* the answers it received
Alone(i) ==
    /\ op[i] = "build" => allowed[i] = get_allowed_sources(material[i])
    /\ op[i] = "edit" => allowed[i] = utils_get_allowed_sources(material[i])
    /\ (op[i] = "build" /\ pc[i] = "await_related" /\ pending[i]) =>
          preprocess_hierarchy(reply[i].parsed, get_allowed_sources(material[i]))
             = [ok |-> TRUE, value |-> hierarchy[i]]
    /\ (op[i] = "build" /\ pc[i] = "done") =>
          /\ preprocess_related(reply[i].parsed, hierarchy[i])
                = [ok |-> TRUE, value |-> related[i]]
          /\ result[i] = convert_hierarchy_to_concepts(hierarchy[i], related[i])
    /\ (op[i] = "edit" /\ pc[i] = "done") =>
          result[i] = preprocess_edited_map(reply[i].parsed,
                                            utils_get_allowed_sources(material[i]))

C15_OperationsIsolated ==
    /\ [](\A i \in Operations : Alone(i))
    /\ [][ \A i, j \in Operations :
              i # j => (Frame(i)' = Frame(i) \/ Frame(j)' = Frame(j)) ]_vars
    /\ [][ \A i \in Operations :
              (pc[i] \notin {"idle", "done", "failed"} /\ pc'[i] # "failed") =>
                 /\ material'[i] = material[i]
                 /\ allowed'[i] = allowed[i]
                 /\ pc[i] = "await_related" => hierarchy'[i] = hierarchy[i] ]_vars

\* a build that has normalized its hierarchy and an edit over other
\* documents are both waiting for an answer
C15_Witness ==
    /\ op["a"] = "build" /\ pc["a"] = "await_related" /\ pending["a"]
    /\ hierarchy["a"] # <<>>
    /\ op["b"] = "edit" /\ pc["b"] = "await_edit" /\ pending["b"]
    /\ material["a"] # material["b"]

(***************************************************************************)
(* C21  The ancestor and descendant maps: get_parents_map maps every       *)
(* concept name to the names strictly above it, from the root down to its  *)
(* parent (empty for a root); get_children_map maps every concept name to  *)
(* all the names strictly below it at any depth (empty for a leaf); the    *)
(* keys of both maps are exactly the flattened names, and no list holds    *)
(* the concept itself.                                                     *)
(***************************************************************************)
RECURSIVE Placed(_, _)
\* every node of h with its place: its name, the names from the root down
\* to its parent, and the names of the nodes below it
Placed(h, path) ==
    UNION { { [name  |-> h[i].key,
               above |-> path,
               below |-> IF Truthy(h[i].value.consists_of)
                         THEN NamesByLevel(Get(h[i].value.consists_of)) ELSE {}] }
              \cup (IF Truthy(h[i].value.consists_of)
                    THEN Placed(Get(h[i].value.consists_of), Append(path, h[i].key))
                    ELSE {})
            : i \in 1..Len(h) }

\* the keys of a dict are pairwise distinct and are exactly names
KeyedBy(d, names) ==
    /\ Range(Keys(d)) = names
    /\ Len(d) = Cardinality(names)

\* the two maps of hierarchy h say of every node what its place is
MapsOf(h) ==
    LET parents_map == get_parents_map(h)
        children_map == get_children_map(h)
    IN /\ KeyedBy(parents_map, flatten_hierarchy(h))
       /\ KeyedBy(children_map, flatten_hierarchy(h))
       /\ \A n \in Placed(h, <<>>) :
             /\ DictGet(parents_map, n.name, None) = n.above
             /\ Range(DictGet(children_map, n.name, None)) = n.below
             /\ n.name \notin Range(DictGet(parents_map, n.name, None))
             /\ n.name \notin Range(DictGet(children_map, n.name, None))

C21_AncestorDescendantMaps ==
    BuildDone => MapsOf(hierarchy)

(***************************************************************************)
(* C22  Edit normalization is idempotent: normalizing the normalized map   *)
(* again, with the same allowed targets, yields the same map (concepts,    *)
(* citation lists, related lists and nesting).                             *)
(***************************************************************************)
C22_EditIdempotent ==
    EditDone => preprocess_edited_map(result, allowed) = result

(***************************************************************************)
(* C23  Hierarchy normalization preserves the tree: the normalized         *)
(* hierarchy has as many nodes as the raw one and the same parent-child    *)
(* structure; name repair merges, overwrites or discards no node, also     *)
(* when two names under one parent differ by a leading underscore only.    *)
(***************************************************************************)
RECURSIVE Shape(_)
\* the structure of a hierarchy without names and citations: for every
\* node, in order, the structure of its children
Shape(h) ==
    [i \in 1..Len(h) |->
        IF Truthy(h[i].value.consists_of)
        THEN Shape(Get(h[i].value.consists_of)) ELSE <<>>]

C23_NormalizationKeepsTree ==
    BuildNormalized =>
       /\ Len(NodeSources(hierarchy)) = Len(NodeSources(reply.parsed))
       /\ Shape(hierarchy) = Shape(reply.parsed)

(***************************************************************************)
(* C24  The paths of get_markdown_header_paths nest headings by strictly   *)
(* increasing level: every segment of a path comes from a heading whose    *)
(* level is lower than the level of the heading of the next segment, also  *)
(* in documents that do not start at level 1 or that skip levels.          *)
(***************************************************************************)
\* the level of the heading of a document whose text is the segment (the
\* headings of the documents of IndexMaterials have pairwise distinct texts)
LevelOfSegment(content, segment) ==
    LET hs == ParseHeaders(content)
    IN hs[CHOOSE i \in 1..Len(hs) : hs[i].text = segment].level

C24_PathsNestByLevel ==
    Indexed =>
       \A d \in 1..Len(material) :
          LET paths == IndexedPaths(material[d].content)
          IN \A k \in 1..Len(paths) :
                LET segments == Split(paths[k], "/")
                IN \A j \in 1..(Len(segments) - 1) :
                      LevelOfSegment(material[d].content, segments[j])
                         < LevelOfSegment(material[d].content, segments[j + 1])

(***************************************************************************)
(* C25  preprocess_edited_map changes citations and related lists only:    *)
(* the normalized map holds the concepts of the response, in the same      *)
(* order and nesting, each with its title and description; no concept is   *)
(* added, dropped, renamed or reordered.  Only source, related and the     *)
(* form of an empty consist_of (empty list or absent) may differ.          *)
(***************************************************************************)
\* the children of a concept, none for an empty or an absent consist_of
Children(c) == IF IsNone(c.consist_of) THEN <<>> ELSE Get(c.consist_of)

RECURSIVE Framed(_, _)
\* new holds the concepts of raw, one for one, with their titles,
\* descriptions and children
Framed(raw, new) ==
    /\ Len(new) = Len(raw)
    /\ \A i \in 1..Len(raw) :
          /\ DOMAIN new[i] = DOMAIN raw[i]
          /\ new[i].title = raw[i].title
          /\ new[i].description = raw[i].description
          /\ Framed(Children(raw[i]), Children(new[i]))

C25_EditKeepsConcepts ==
    EditDone => Framed(reply.parsed, result)

\* an edit normalized a map whose concept has a description and an empty
\* consist_of list, and changed its citation list
C25_Witness ==
    /\ EditDone
    /\ \E i \in 1..Len(reply.parsed) :
          /\ Truthy(reply.parsed[i].description)
          /\ reply.parsed[i].consist_of = Some(<<>>)
          /\ result[i].consist_of = None
          /\ result[i].source # reply.parsed[i].source

(***************************************************************************)
(* C26  The normalization passes do not modify their arguments: when       *)
(* preprocess_hierarchy, preprocess_related or preprocess_edited_map       *)
(* returns, the objects of the input hierarchy, of the input relation map  *)
(* (each related list included), of the input knowledge map and the        *)
(* allowed-target list are as they were before the call, and edit leaves   *)
(* the objects of the prior knowledge map as they were.                    *)
(***************************************************************************)
\* the objects that existed before a call are the same after it
Kept(before, after) == SubSeq(after, 1, Len(before)) = before

\* preprocess_hierarchy(reply.parsed, allowed): reference 1 is the list of
\* allowed targets
HierarchyArgumentsKept ==
    LET before == ConceptHierarchyObjects(<<allowed>>, reply.parsed)
        after == preprocess_hierarchy_on(before.heap, before.ref, 1)
    IN /\ Kept(before.heap, after.heap)
       /\ ConceptHierarchyValue(after.heap, after.ref) = hierarchy

\* preprocess_related(reply.parsed, hierarchy): reference 1 is the
\* RelatedConcepts
RelatedArgumentsKept ==
    LET before == RelatedConceptsObjects(reply.parsed)
        after == preprocess_related_on(before, 1, hierarchy)
    IN /\ Kept(before, after.heap)
       /\ RelatedConceptsValue(after.heap, after.ref) = related

\* edit(material, priorMap, ...) from its prompt on, with reply.parsed for
\* message.parsed
EditArgumentsKept ==
    LET prior == KnowledgeMapObjects(<<allowed>>, priorMap)
        before == KnowledgeMapObjects(prior.heap, reply.parsed)
        after == edit_on(before.heap, prior.ref, 1, before.ref)
    IN /\ Kept(before.heap, after.heap)
       /\ KnowledgeMapValue(after.heap, prior.ref) = priorMap
       /\ KnowledgeMapValue(after.heap, after.ref) = result

C26_ArgumentsKept ==
    /\ BuildNormalized => HierarchyArgumentsKept
    /\ BuildDone => RelatedArgumentsKept
    /\ EditDone => EditArgumentsKept

\* a build cleaned a relation map one list of which it had to change
C26_Witness ==
    /\ BuildDone
    /\ Len(reply.parsed) = 1
    /\ related[1].value # reply.parsed[1].value
    /\ Truthy(related[1].value)

(***************************************************************************)
(* The heuristic roadmap on its own: calls of generate_sql_roadmap, one    *)
(* after the other in one process.  material is the text_blobs of the      *)
(* latest call and result the Roadmap it returned.                         *)
(***************************************************************************)
\* text blobs of one call
MaxBlobs == 2
\* resources of a milestone beyond which no further call is made
MaxResources == 4

\* the texts of the uploaded files
Blobs == { <<"p", "o", "s", "t", "g", "r", "e", "s">>,
           <<"M", "y", "S", "Q", "L">>,
           <<"b", "i">>,
           <<"c", "t", "e">>,
           <<"x">> }

TextBlobs == SeqsUpTo(Blobs, MaxBlobs)

GenerateSqlRoadmap ==
    /\ \A i \in 1..Len(BASIC_MILESTONES) :
          Len(BASIC_MILESTONES[i].resources) < MaxResources
    /\ \E text_blobs \in TextBlobs :
          LET returned == generate_sql_roadmap(BASIC_MILESTONES, text_blobs)
          IN /\ material' = text_blobs
             /\ BASIC_MILESTONES' = returned.objects
             /\ result' = returned.roadmap
    /\ op' = "roadmap"
    /\ UNCHANGED <<pc, allowed, priorMap, pending, reply, hierarchy, related, error>>

RoadmapNext == GenerateSqlRoadmap

RoadmapSpec == Init /\ [][RoadmapNext]_vars

(***************************************************************************)
(* C27  generate_sql_roadmap leaves BASIC_MILESTONES as the module defines *)
(* it: after any sequence of calls the resources, tags and estimated hours *)
(* of every milestone have their initial values, so a call with the text   *)
(* of the call before it returns an equal roadmap.                         *)
(***************************************************************************)
C27_TemplateUnchanged ==
    /\ [](BASIC_MILESTONES = InitialMilestones)
    /\ [][(op = "roadmap" /\ material' = material) => result' = result]_vars
====
